---- MODULE Spec2Model ----
(***************************************************************************)
(* AgentBox session runtime (jackgladowsky/agentbox).                      *)
(*                                                                         *)
(* One AgentBox instance: prompt() callers, the FIFO queue, the drain      *)
(* loop, one turn at a time through the engine, the inactivity watchdog,   *)
(* subscriber fan-out and session-id persistence.  The repository holds    *)
(* three generations of the class; they share prompt/_drainQueue and       *)
(* differ in _runPrompt:                                                   *)
(*   "sdk"      runTurn async generator, session_id file                   *)
(*   "runAgent" runAgent promise + onEvent callback, session.json          *)
(*   "pi"       pi-agent-core Agent with subscribe()/prompt()              *)
(* The variant is fixed at construction.  Time is discrete (Tick).         *)
(***************************************************************************)
EXTENDS Integers, Sequences, FiniteSets, TLC

MaxPrompts == 3
MaxEvents == 1
MaxSubs == 2
SessPrompts == 2
WdPrompts == 2
CtlPrompts == 2
SubPrompts == 1
MaxIdleRuns == 2
idleMinutes == 2
MaxHist == 3
MaxMsgChars == 6
MAX_CONTEXT_CHARS == 5
RECENT_MESSAGES_TO_KEEP == 2
MaxParts == 2
MaxMeasured == 1
MaxNow == 4
MaxAdapterMsgs == 2
MaxFirings == 3
MaxText == 5
MaxChunk == 3
MAX_CHECKPOINT_AGE_MS == 2
INACTIVITY_TIMEOUT_MS == 2

Variants == {"sdk", "runAgent", "pi"}
Sources == {"A", "B"}
SubIds == {"s1", "s2"}
None == <<"<none>">>
EmptyTok == <<>>
EngineTokens == {<<"a">>, <<"b">>}
Calls == 1..MaxPrompts
MaxGap == INACTIVITY_TIMEOUT_MS + 1

VARIABLES
  variant,      \* which generation of the class is running
  initialized,  \* _initialized / agent # null
  sessionId,    \* in-memory continuation token
  disk,         \* content of the session file, None when absent
  unlinking,    \* a clearSessionId() unlink started and not finished
  model,        \* model id used for the next turn
  listeners,    \* Map<string, callback> in insertion order
  subs,         \* subs[k] = subscriber id used by the k-th subscribe() call
  queue,        \* queued call ids, oldest first
  busy,         \* the busy flag
  nCalls,       \* number of prompt() calls made so far
  src,          \* src[c] = source given to the c-th prompt() call
  pc,           \* pc[c] = position of the c-th prompt() call
  turn,         \* turn[c] = the turn the drain loop of call c is running
  abortCtl,     \* item whose AbortController this._abortController holds, 0 = null
  timers,       \* armed setTimeout timers
  started,      \* history: items in the order their turns were started
  emitted,      \* history: the emissions made by the last emitting step
  ended,        \* history: summary of the last turn that ended
  wd,           \* history: the last watchdog timeout that fired
  cgen,         \* which generation of compactContext createAgent installed
  openrouterKey, \* whether config.openrouterKey is set
  messages,     \* agent.state.messages: the stored history
  result,       \* history: the last compactContext call, its input and output
  call,         \* history: the last call of a stateless helper or of a file operation
  now           \* Date.now()

cvars == <<cgen, openrouterKey, messages, result>>

boxvars == <<variant, initialized, sessionId, disk, unlinking, model, listeners, subs,
             queue, busy, nCalls, src, pc, turn, abortCtl, timers, started, emitted,
             ended, wd>>

pvars == <<call, now>>

vars == <<boxvars, cvars, pvars>>

----------------------------------------------------------------------------
(* Helpers *)

Truthy(tok) == tok # None /\ tok # EmptyTok

RECURSIVE TrimLeft(_)
TrimLeft(s) == IF s # <<>> /\ Head(s) = " " THEN TrimLeft(Tail(s)) ELSE s

RECURSIVE TrimRight(_)
TrimRight(s) ==
  IF s # <<>> /\ s[Len(s)] = " " THEN TrimRight(SubSeq(s, 1, Len(s) - 1)) ELSE s

Trim(s) == TrimRight(TrimLeft(s))

\* mutant: the file is truncated and the token never written
SavedFileEmpty(tok) == <<>>

\* saveSessionId / saveSession: what the file holds after a successful write
SavedFile(tok) == tok

\* loadSessionId: id.trim() || null ; loadSession: data.sessionId
LoadSessionId(d) ==
  IF d = None THEN None
  ELSE IF variant = "sdk" THEN (IF Trim(d) = EmptyTok THEN None ELSE Trim(d))
  ELSE d

IdleTurn ==
  [item |-> 0, source |-> "-", phase |-> "none", aborted |-> FALSE, gap |-> 0,
   fired |-> 0, n |-> 0, sawError |-> FALSE, wroteMem |-> FALSE,
   usedToken |-> None, usedModel |-> "unset", pendTok |-> None, em |-> 0,
   touched |-> FALSE, cleared |-> FALSE, last |-> "none"]

NoEnd == [item |-> 0, outcome |-> "none", cause |-> "-", tok |-> None,
          sawError |-> FALSE, wroteMem |-> FALSE, wroteDisk |-> FALSE, n |-> 0,
          em |-> 0, touched |-> FALSE, cleared |-> FALSE, last |-> "none",
          aborted |-> FALSE]

NoWd == [item |-> 0, gapAtFire |-> 0, firedInGap |-> 0]

\* no helper call recorded
NoCall == [fn |-> "none", gen |-> "-", in |-> <<>>, out |-> <<>>, done |-> FALSE,
           prev |-> [fn |-> "none", in |-> <<>>], was |-> <<>>, at |-> 0]

NoResult == [path |-> "none", cause |-> "-", threw |-> FALSE, wrote |-> FALSE,
             in |-> <<>>, out |-> <<>>, summary |-> <<>>]

Active == {c \in Calls : turn[c].phase # "none"}

\* mutant: queue.pop() in place of queue.shift()
ShiftItemPop(q) == q[Len(q)]

\* queue.shift()
ShiftItem(q) == Head(q)
ShiftRest(q) == Tail(q)

\* mutant: the busy checks are missing
MayDrainNoBusyCheck == TRUE

\* prompt(): if (!this.busy) ... ; _drainQueue(): if (this.busy || ...) return
MayDrain == ~busy

\* clearTimeout(watchdog): the handle is the timer this turn armed last
Youngest(T, j) ==
  {t \in T : t.owner = j /\ \A u \in T : u.owner = j => t.age <= u.age}

\* mutant: clearTimeout is never called
ClearWatchdogKeeps(T, j) == T

\* if (watchdog) clearTimeout(watchdog)
ClearWatchdog(T, j) == T \ Youngest(T, j)

\* mutant: the previous timer is not cleared
ResetWatchdogNoClear(T, j) == T \cup {[owner |-> j, age |-> 0]}

\* resetWatchdog(): if (watchdog) clearTimeout(watchdog); watchdog = setTimeout(...)
ResetWatchdog(T, j) == ClearWatchdog(T, j) \cup {[owner |-> j, age |-> 0]}

\* source the emit closure tags an event with: the _runPrompt parameter
EmitSource(c) == turn[c].source

\* for (const cb of this.listeners.values()) cb(event, source)
\* k listeners return normally; when k < Len(listeners) the next one throws
EmitTo(ev, msg, tok, j, s, k, nn) ==
  [ev |-> ev, msg |-> msg, tok |-> tok, source |-> s, item |-> j,
   n |-> nn, regs |-> listeners,
   to |-> SubSeq(listeners, 1, IF k < Len(listeners) THEN k + 1 ELSE k),
   threw |-> k < Len(listeners)]

EmitRec(ev, msg, tok, c, k, nn) ==
  EmitTo(ev, msg, tok, turn[c].item, EmitSource(c), k, nn)

Throws(k) == k < Len(listeners)
NoThrow == Len(listeners)

\* _runPrompt entry: the not-initialized throw of runAgent / pi variants
CanRun == variant = "sdk" \/ initialized

NewTurn(j, s, sid, mdl) ==
  [IdleTurn EXCEPT !.item = j, !.source = s, !.phase = "stream",
                   !.usedToken = sid, !.usedModel = mdl]

\* how the last _runPrompt settled: outcome "resolved" / "rejected", and why
Summary(t, outcome, cause, tok, wroteDisk) ==
  [item |-> t.item, outcome |-> outcome, cause |-> cause, tok |-> tok,
   sawError |-> t.sawError, wroteMem |-> t.wroteMem, wroteDisk |-> wroteDisk,
   n |-> t.n, em |-> t.em, touched |-> t.touched, cleared |-> t.cleared,
   last |-> t.last, aborted |-> t.aborted]

----------------------------------------------------------------------------
(* The drain loop after _runPrompt settles: finally-block, then either the *)
(* next iteration of while (queue.length > 0), or busy = false, or the     *)
(* rejection leaving _drainQueue with busy still set.                      *)

EndTurn(c, ok, sid, T) ==
  LET j == turn[c].item
      cleared == ClearWatchdog(T, j)
  IN IF ok /\ queue # <<>>
     THEN LET nx == ShiftItem(queue) IN
          /\ queue' = ShiftRest(queue)
          /\ IF CanRun
             THEN /\ turn' = [turn EXCEPT ![c] = NewTurn(nx, src[nx], sid, model)]
                  /\ timers' = ResetWatchdog(cleared, nx)
                  /\ abortCtl' = IF variant = "pi" THEN 0 ELSE nx
                  /\ started' = Append(started, nx)
                  /\ UNCHANGED <<pc, busy>>
             ELSE /\ turn' = [turn EXCEPT ![c] = IdleTurn]
                  /\ timers' = cleared
                  /\ abortCtl' = 0
                  /\ pc' = [pc EXCEPT ![c] = "rejected"]
                  /\ UNCHANGED <<started, busy>>
     ELSE /\ turn' = [turn EXCEPT ![c] = IdleTurn]
          /\ timers' = cleared
          /\ abortCtl' = 0
          /\ pc' = [pc EXCEPT ![c] = IF ok THEN "returned" ELSE "rejected"]
          /\ busy' = IF ok THEN FALSE ELSE busy
          /\ UNCHANGED <<queue, started>>

----------------------------------------------------------------------------
\* the fields of a freshly constructed AgentBox
Constructed ==
  /\ initialized = FALSE
  /\ sessionId = None
  /\ unlinking = FALSE
  /\ model = "unset"
  /\ listeners = <<>>
  /\ subs = <<>>
  /\ queue = <<>>
  /\ busy = FALSE
  /\ nCalls = 0
  /\ src = [c \in Calls |-> "-"]
  /\ pc = [c \in Calls |-> "none"]
  /\ turn = [c \in Calls |-> IdleTurn]
  /\ abortCtl = 0
  /\ timers = {}
  /\ started = <<>>
  /\ emitted = <<>>
  /\ ended = NoEnd
  /\ wd = NoWd
  /\ messages = <<>>
  /\ result = NoResult

Init ==
  /\ variant \in Variants
  /\ disk = None
  /\ cgen = "gemini"
  /\ openrouterKey = FALSE
  /\ call = NoCall
  /\ now = 0
  /\ Constructed

\* a process start that may find the session file of an earlier run
InitSession ==
  /\ variant \in {"sdk", "runAgent"}
  /\ disk \in {None, <<"a">>}
  /\ cgen = "gemini"
  /\ openrouterKey = FALSE
  /\ call = NoCall
  /\ now = 0
  /\ Constructed

\* history: the session state was reassigned while a turn's save was in flight
Touched(tn) ==
  [c \in Calls |-> IF tn[c].phase = "saving" THEN [tn[c] EXCEPT !.touched = TRUE]
                   ELSE tn[c]]

\* history: clearMessages() / clearSession() was called while the turn was in flight
Cleared(tn) ==
  [c \in Calls |-> IF tn[c].phase # "none" THEN [tn[c] EXCEPT !.cleared = TRUE]
                   ELSE tn[c]]

\* init()
DoInit ==
  /\ variant # "sdk" => ~initialized     \* if (this._initialized) return
  /\ initialized' = TRUE
  /\ model' = "m0"
  /\ sessionId' = IF variant = "pi" THEN sessionId ELSE LoadSessionId(disk)
  /\ turn' = Touched(turn)
  /\ emitted' = <<>>
  /\ ended' = NoEnd
  /\ wd' = NoWd
  /\ UNCHANGED <<pvars, cvars, variant, disk, unlinking, listeners, subs, queue, busy, nCalls, src,
                 pc, abortCtl, timers, started>>

\* prompt(content, source)
Prompt(s) ==
  /\ nCalls < MaxPrompts
  /\ nCalls = 0 => s # "B"      \* callers A and B are interchangeable: fix the first
  /\ LET c == nCalls + 1
         q == Append(queue, c)
         srcs == [src EXCEPT ![c] = s]
     IN /\ nCalls' = c
        /\ src' = srcs
        /\ IF MayDrain
           THEN LET nx == ShiftItem(q) IN
                /\ busy' = TRUE
                /\ queue' = ShiftRest(q)
                /\ IF CanRun
                   THEN /\ turn' = [turn EXCEPT ![c] =
                              [IdleTurn EXCEPT !.item = nx, !.source = srcs[nx],
                                               !.phase = "stream",
                                               !.usedToken = sessionId,
                                               !.usedModel = model]]
                        /\ timers' = ResetWatchdog(timers, nx)
                        /\ abortCtl' = IF variant = "pi" THEN 0 ELSE nx
                        /\ started' = Append(started, nx)
                        /\ pc' = [pc EXCEPT ![c] = "draining"]
                   ELSE /\ pc' = [pc EXCEPT ![c] = "rejected"]
                        /\ UNCHANGED <<turn, timers, abortCtl, started>>
           ELSE /\ queue' = q
                /\ pc' = [pc EXCEPT ![c] = "returned"]
                /\ UNCHANGED <<busy, turn, timers, abortCtl, started>>
  /\ emitted' = <<>>
  /\ ended' = NoEnd
  /\ wd' = NoWd
  /\ UNCHANGED <<pvars, cvars, variant, initialized, sessionId, disk, unlinking, model, listeners,
                 subs>>

\* subscribe(id, callback): Map.set keeps the position of an existing key
Subscribe(id) ==
  /\ Len(subs) < MaxSubs
  /\ LET cb == Len(subs) + 1
         e == [id |-> id, cb |-> cb]
     IN /\ subs' = Append(subs, id)
        /\ listeners' =
             IF \E i \in 1..Len(listeners) : listeners[i].id = id
             THEN [i \in 1..Len(listeners) |->
                     IF listeners[i].id = id THEN e ELSE listeners[i]]
             ELSE Append(listeners, e)
  /\ emitted' = <<>>
  /\ ended' = NoEnd
  /\ wd' = NoWd
  /\ UNCHANGED <<pvars, cvars, variant, initialized, sessionId, disk, unlinking, model, queue, busy,
                 nCalls, src, pc, turn, abortCtl, timers, started>>

\* the function subscribe() returned: () => this.listeners.delete(id)
Unsubscribe(k) ==
  /\ k \in 1..Len(subs)
  /\ \E i \in 1..Len(listeners) : listeners[i].id = subs[k]
  /\ listeners' = SelectSeq(listeners, LAMBDA e : e.id # subs[k])
  /\ emitted' = <<>>
  /\ ended' = NoEnd
  /\ wd' = NoWd
  /\ UNCHANGED <<pvars, cvars, variant, initialized, sessionId, disk, unlinking, model, subs, queue,
                 busy, nCalls, src, pc, turn, abortCtl, timers, started>>

\* the turns an abort() call signals
AbortTargets ==
  IF variant = "pi" THEN Active
  ELSE {c \in Active : abortCtl # 0 /\ turn[c].item = abortCtl}

Aborted(tn) ==
  [c \in Calls |-> IF c \in AbortTargets THEN [tn[c] EXCEPT !.aborted = TRUE] ELSE tn[c]]

\* abort()
Abort ==
  /\ turn' = Aborted(turn)
  /\ emitted' = <<>>
  /\ ended' = NoEnd
  /\ wd' = NoWd
  /\ UNCHANGED <<pvars, cvars, variant, initialized, sessionId, disk, unlinking, model, listeners,
                 subs, queue, busy, nCalls, src, pc, abortCtl, timers, started>>

\* mutant: the clear also empties the queue of waiting requests
ClearMessagesDropQueue ==
  /\ variant # "pi"
  /\ sessionId' = None
  /\ unlinking' = TRUE
  /\ queue' = <<>>
  /\ turn' = Cleared(Touched(turn))
  /\ emitted' = <<>>
  /\ ended' = NoEnd
  /\ wd' = NoWd
  /\ UNCHANGED <<pvars, cvars, variant, initialized, disk, model, listeners, subs, busy,
                 nCalls, src, pc, abortCtl, timers, started>>

\* clearMessages() / clearSession(): the unlink is started, not finished
ClearMessages ==
  /\ variant # "pi"
  /\ sessionId' = None
  /\ unlinking' = TRUE
  /\ turn' = Cleared(Touched(turn))
  /\ emitted' = <<>>
  /\ ended' = NoEnd
  /\ wd' = NoWd
  /\ UNCHANGED <<pvars, cvars, variant, initialized, disk, model, listeners, subs, queue, busy,
                 nCalls, src, pc, abortCtl, timers, started>>

\* clearSessionId / clearSession (checkpoint): unlink completes
UnlinkDone ==
  /\ unlinking
  /\ unlinking' = FALSE
  /\ disk' = None
  /\ emitted' = <<>>
  /\ ended' = NoEnd
  /\ wd' = NoWd
  /\ UNCHANGED <<pvars, cvars, variant, initialized, sessionId, model, listeners, subs, queue, busy,
                 nCalls, src, pc, turn, abortCtl, timers, started>>

\* mutant: the running turn picks the new model up
SetModelLive(m) ==
  /\ model # m
  /\ model' = m
  /\ turn' = [c \in Calls |-> IF turn[c].phase # "none"
                               THEN [turn[c] EXCEPT !.usedModel = m] ELSE turn[c]]
  /\ emitted' = <<>>
  /\ ended' = NoEnd
  /\ wd' = NoWd
  /\ UNCHANGED <<pvars, cvars, variant, initialized, sessionId, disk, unlinking, listeners, subs,
                 queue, busy, nCalls, src, pc, abortCtl, timers, started>>

\* setModel(modelId)
SetModel(m) ==
  /\ model # m
  /\ model' = m
  /\ emitted' = <<>>
  /\ ended' = NoEnd
  /\ wd' = NoWd
  /\ UNCHANGED <<pvars, cvars, variant, initialized, sessionId, disk, unlinking, listeners, subs,
                 queue, busy, nCalls, src, pc, turn, abortCtl, timers, started>>

\* the clock advances; a due timer runs before time moves on
Tick ==
  /\ Active # {}
  /\ \A t \in timers : t.age < INACTIVITY_TIMEOUT_MS
  /\ \E c \in Active : turn[c].gap < MaxGap
  /\ timers' = {[t EXCEPT !.age = @ + 1] : t \in timers}
  /\ turn' = [c \in Calls |->
                IF c \in Active /\ turn[c].gap < MaxGap
                THEN [turn[c] EXCEPT !.gap = @ + 1] ELSE turn[c]]
  /\ emitted' = <<>>
  /\ ended' = NoEnd
  /\ wd' = NoWd
  /\ UNCHANGED <<pvars, cvars, variant, initialized, sessionId, disk, unlinking, model, listeners,
                 subs, queue, busy, nCalls, src, pc, abortCtl, started>>

----------------------------------------------------------------------------
(* "sdk": _runPrompt over the runTurn async generator *)

\* an engine event observed by the for-await body: resetWatchdog, emit
Observed(t, ev) ==
  [t EXCEPT !.gap = 0, !.fired = 0, !.n = @ + 1,
            !.sawError = @ \/ ev = "error"]

\* the event was handed to emit / the listener loop
Emitted(t) == [t EXCEPT !.em = @ + 1]

\* history: the kind of the event subscribers were handed last in this turn
Last(t, ev) == [t EXCEPT !.last = ev]

\* catch (err) { if (err?.name !== "AbortError") emit(error) } finally {...}
SdkCatch(c, t, cause, first, k2, sid, T) ==
  LET e2 == EmitRec("error", "exception", None, c, k2, t.n) IN
  /\ emitted' = Append(first, e2)
  /\ ended' = Summary(Last(t, "error"), IF Throws(k2) THEN "rejected" ELSE "resolved",
                      cause, None, FALSE)
  /\ EndTurn(c, ~Throws(k2), sid, T)

\* runTurn yields text_delta / tool_start / tool_end / error
SdkEvent(c, ev, k, k2) ==
  /\ variant = "sdk"
  /\ turn[c].phase = "stream"
  /\ turn[c].n < MaxEvents
  /\ LET j == turn[c].item
         T1 == ResetWatchdog(timers, j)
         t1 == Last(Emitted(Observed(turn[c], ev)), ev)
         e1 == EmitRec(ev, "engine", None, c, k, t1.n)
     IN IF Throws(k)
        THEN SdkCatch(c, t1, "subscriber", <<e1>>, k2, sessionId, T1)
        ELSE /\ k2 = NoThrow
             /\ emitted' = <<e1>>
             /\ turn' = [turn EXCEPT ![c] = t1]
             /\ timers' = T1
             /\ ended' = NoEnd
             /\ UNCHANGED <<queue, busy, pc, abortCtl, started>>
  /\ wd' = NoWd
  /\ UNCHANGED <<pvars, cvars, variant, initialized, sessionId, disk, unlinking, model, listeners,
                 subs, nCalls, src>>

\* runTurn's last yield: { type: "done", sessionId: resolvedSessionId }
DoneTokens(c) ==
  EngineTokens \cup {IF Truthy(turn[c].usedToken) THEN turn[c].usedToken ELSE EmptyTok}

\* if (event.type === "done") { this.sessionId = ...; if (...) await saveSessionId }
SdkDone(c, tok, k, k2) ==
  /\ variant = "sdk"
  /\ turn[c].phase = "stream"
  /\ tok \in DoneTokens(c)
  /\ LET j == turn[c].item
         T1 == ResetWatchdog(timers, j)
         t1 == [Observed(turn[c], "done") EXCEPT !.wroteMem = Truthy(tok),
                                                 !.pendTok = tok]
         e1 == EmitRec("done", "engine", tok, c, k, t1.n)
     IN /\ sessionId' = tok
        /\ IF tok # EmptyTok
           THEN /\ k = NoThrow /\ k2 = NoThrow
                /\ turn' = [turn EXCEPT ![c] = [t1 EXCEPT !.phase = "saving"]]
                /\ timers' = T1
                /\ emitted' = <<>>
                /\ ended' = NoEnd
                /\ UNCHANGED <<queue, busy, pc, abortCtl, started>>
           ELSE IF Throws(k)
                THEN SdkCatch(c, Emitted(t1), "subscriber", <<e1>>, k2, tok, T1)
                ELSE /\ k2 = NoThrow
                     /\ emitted' = <<e1>>
                     /\ ended' = Summary(Last(Emitted(t1), "done"), "resolved", "done",
                                         tok, FALSE)
                     /\ EndTurn(c, TRUE, tok, T1)
  /\ wd' = NoWd
  /\ UNCHANGED <<pvars, cvars, variant, initialized, disk, unlinking, model, listeners, subs, nCalls,
                 src>>

\* saveSessionId resolves; emit(done); the generator returns; finally
SdkSaveDone(c, k, k2) ==
  /\ variant = "sdk"
  /\ turn[c].phase = "saving"
  /\ LET t1 == Emitted(turn[c])
         e1 == EmitRec("done", "engine", t1.pendTok, c, k, t1.n)
     IN /\ disk' = SavedFile(t1.pendTok)
        /\ IF Throws(k)
           THEN /\ emitted' = <<e1, EmitRec("error", "exception", None, c, k2, t1.n)>>
                /\ ended' = Summary(Last(t1, "error"),
                                    IF Throws(k2) THEN "rejected" ELSE "resolved",
                                    "subscriber", t1.pendTok, TRUE)
                /\ EndTurn(c, ~Throws(k2), sessionId, timers)
           ELSE /\ k2 = NoThrow
                /\ emitted' = <<e1>>
                /\ ended' = Summary(Last(t1, "done"), "resolved", "done", t1.pendTok,
                                    TRUE)
                /\ EndTurn(c, TRUE, sessionId, timers)
  /\ wd' = NoWd
  /\ UNCHANGED <<pvars, cvars, variant, initialized, sessionId, unlinking, model, listeners, subs,
                 nCalls, src>>

\* saveSessionId rejects (mkdir / writeFile failure): caught by _runPrompt
SdkSaveFail(c, k2) ==
  /\ variant = "sdk"
  /\ turn[c].phase = "saving"
  /\ SdkCatch(c, turn[c], "save", <<>>, k2, sessionId, timers)
  /\ wd' = NoWd
  /\ UNCHANGED <<pvars, cvars, variant, initialized, sessionId, disk, unlinking, model, listeners,
                 subs, nCalls, src>>

----------------------------------------------------------------------------
(* "runAgent": _runPrompt awaits runAgent({..., onEvent}) *)

\* runAgent returned { sessionId }: if (sessionId) { this._sessionId = ...; await saveSession }
RaReturned(c, t, got, em, T) ==
  IF Truthy(got)
  THEN /\ sessionId' = got
       /\ turn' = [turn EXCEPT ![c] =
                     [t EXCEPT !.phase = "saving", !.wroteMem = TRUE, !.pendTok = got]]
       /\ timers' = T
       /\ emitted' = em
       /\ ended' = NoEnd
       /\ UNCHANGED <<queue, busy, pc, abortCtl, started>>
  ELSE /\ sessionId' = sessionId
       /\ emitted' = em
       /\ ended' = Summary(t, "resolved", "done", None, FALSE)
       /\ EndTurn(c, TRUE, sessionId, T)

\* catch (err) { console.error(...); throw err } finally {...}
RaRethrow(c, t, cause, em, T) ==
  /\ emitted' = em
  /\ ended' = Summary(t, "rejected", cause, None, FALSE)
  /\ EndTurn(c, FALSE, sessionId, T)

\* an assistant message with text: onEvent({type: "text_delta"})
RaText(c, k) ==
  /\ variant = "runAgent"
  /\ turn[c].phase = "stream"
  /\ ~turn[c].aborted
  /\ turn[c].n < MaxEvents
  /\ LET T1 == ResetWatchdog(timers, turn[c].item)
         t1 == Last(Emitted(Observed(turn[c], "text_delta")), "text_delta")
         e1 == EmitRec("text_delta", "engine", None, c, k, t1.n)
     IN IF Throws(k)
        THEN RaRethrow(c, t1, "subscriber", <<e1>>, T1)
        ELSE /\ emitted' = <<e1>>
             /\ ended' = NoEnd
             /\ turn' = [turn EXCEPT ![c] = t1]
             /\ timers' = T1
             /\ UNCHANGED <<queue, busy, pc, abortCtl, started>>
  /\ wd' = NoWd
  /\ UNCHANGED <<pvars, cvars, variant, initialized, sessionId, disk, unlinking, model, listeners,
                 subs, nCalls, src>>

\* the result message: onEvent({type: "agent_end"}), the stream ends, runAgent returns
RaResult(c, got, k) ==
  /\ variant = "runAgent"
  /\ turn[c].phase = "stream"
  /\ ~turn[c].aborted
  /\ LET T1 == ResetWatchdog(timers, turn[c].item)
         t1 == Last(Emitted(Observed(turn[c], "agent_end")), "agent_end")
         e1 == EmitRec("agent_end", "engine", None, c, k, t1.n)
     IN IF Throws(k)
        THEN /\ sessionId' = sessionId
             /\ RaRethrow(c, t1, "subscriber", <<e1>>, T1)
        ELSE RaReturned(c, t1, got, <<e1>>, T1)
  /\ wd' = NoWd
  /\ UNCHANGED <<pvars, cvars, variant, initialized, disk, unlinking, model, listeners, subs, nCalls,
                 src>>

\* a message arrives after the signal was aborted: break, runAgent returns
RaBreak(c, got) ==
  /\ variant = "runAgent"
  /\ turn[c].phase = "stream"
  /\ turn[c].aborted
  /\ RaReturned(c, turn[c], got, <<>>, timers)
  /\ wd' = NoWd
  /\ UNCHANGED <<pvars, cvars, variant, initialized, disk, unlinking, model, listeners, subs, nCalls,
                 src>>

\* query() throws: runAgent rejects
RaReject(c) ==
  /\ variant = "runAgent"
  /\ turn[c].phase = "stream"
  /\ RaRethrow(c, turn[c], "engineReject", <<>>, timers)
  /\ wd' = NoWd
  /\ UNCHANGED <<pvars, cvars, variant, initialized, sessionId, disk, unlinking, model, listeners,
                 subs, nCalls, src>>

\* saveSession settles; a failure is logged by the .catch
RaSaveSettled(c, okSave) ==
  /\ variant = "runAgent"
  /\ turn[c].phase = "saving"
  /\ disk' = IF okSave THEN SavedFile(turn[c].pendTok) ELSE disk
  /\ emitted' = <<>>
  /\ ended' = Summary(turn[c], "resolved", "done", turn[c].pendTok, okSave)
  /\ EndTurn(c, TRUE, sessionId, timers)
  /\ wd' = NoWd
  /\ UNCHANGED <<pvars, cvars, variant, initialized, sessionId, unlinking, model, listeners, subs,
                 nCalls, src>>

----------------------------------------------------------------------------
(* "pi": _runPrompt wraps agent.subscribe / agent.prompt in a Promise *)

\* the agent.subscribe handler
PiEvent(c, ev, k) ==
  /\ variant = "pi"
  /\ turn[c].phase = "stream"
  /\ ev = "text_delta" => turn[c].n < MaxEvents
  /\ LET T1 == ResetWatchdog(timers, turn[c].item)
         t1 == Last(Emitted(Observed(turn[c], ev)), ev)
         e1 == EmitRec(ev, "engine", None, c, k, t1.n)
     IN /\ emitted' = <<e1>>
        /\ IF ev = "agent_end" /\ ~Throws(k)
           THEN /\ ended' = Summary(t1, "resolved", "done", None, FALSE)
                /\ EndTurn(c, TRUE, sessionId, T1)
           ELSE /\ ended' = NoEnd
                /\ turn' = [turn EXCEPT ![c] =
                     [t1 EXCEPT !.phase = IF ev = "agent_end" THEN "silent" ELSE @]]
                /\ timers' = T1
                /\ UNCHANGED <<queue, busy, pc, abortCtl, started>>
  /\ wd' = NoWd
  /\ UNCHANGED <<pvars, cvars, variant, initialized, sessionId, disk, unlinking, model, listeners,
                 subs, nCalls, src>>

\* agent.prompt(content).catch(err => { ...; reject(err) })
PiReject(c) ==
  /\ variant = "pi"
  /\ turn[c].phase = "stream"
  /\ emitted' = <<>>
  /\ ended' = Summary(turn[c], "rejected", "engineReject", None, FALSE)
  /\ EndTurn(c, FALSE, sessionId, timers)
  /\ wd' = NoWd
  /\ UNCHANGED <<pvars, cvars, variant, initialized, sessionId, disk, unlinking, model, listeners,
                 subs, nCalls, src>>

----------------------------------------------------------------------------
(* The watchdog's setTimeout callback *)

OwnerOf(tm) == {c \in Active : turn[c].item = tm.owner}

Fired(tn, tm) ==
  [c \in Calls |-> IF c \in OwnerOf(tm)
                   THEN [tn[c] EXCEPT !.fired = @ + 1,
                                      !.last = IF variant = "sdk" THEN "error" ELSE @]
                   ELSE tn[c]]

WdRec(tm) ==
  IF OwnerOf(tm) = {}
  THEN [item |-> tm.owner, gapAtFire |-> tm.age, firedInGap |-> 1]
  ELSE LET c == CHOOSE x \in OwnerOf(tm) : TRUE
       IN [item |-> tm.owner, gapAtFire |-> turn[c].gap,
           firedInGap |-> turn[c].fired + 1]

\* sdk: this.abort(); emit({type: "error", message: "... timed out ..."})
\* runAgent: this.abortController?.abort()
TimeoutSignal(tm, k) ==
  /\ variant \in {"sdk", "runAgent"}
  /\ tm \in timers
  /\ tm.age >= INACTIVITY_TIMEOUT_MS
  /\ timers' = timers \ {tm}
  /\ turn' = Fired(Aborted(turn), tm)
  /\ wd' = WdRec(tm)
  /\ IF variant = "sdk"
     THEN emitted' = <<EmitTo("error", "timeout", None, tm.owner, src[tm.owner], k, 0)>>
     ELSE k = NoThrow /\ emitted' = <<>>
  /\ ended' = NoEnd
  /\ UNCHANGED <<pvars, cvars, variant, initialized, sessionId, disk, unlinking, model, listeners,
                 subs, queue, busy, nCalls, src, pc, abortCtl, started>>

\* pi: unsubscribe(); this.abort(); reject(new Error("Agent stream inactive ..."))
TimeoutReject(tm) ==
  /\ variant = "pi"
  /\ tm \in timers
  /\ tm.age >= INACTIVITY_TIMEOUT_MS
  /\ wd' = WdRec(tm)
  /\ emitted' = <<>>
  /\ IF OwnerOf(tm) = {}
     THEN /\ timers' = timers \ {tm}
          /\ turn' = Aborted(turn)
          /\ ended' = NoEnd
          /\ UNCHANGED <<queue, busy, pc, abortCtl, started>>
     ELSE LET c == CHOOSE x \in OwnerOf(tm) : TRUE IN
          /\ ended' = Summary(turn[c], "rejected", "timeout", None, FALSE)
          /\ EndTurn(c, FALSE, sessionId, timers \ {tm})
  /\ UNCHANGED <<pvars, cvars, variant, initialized, sessionId, disk, unlinking, model, listeners,
                 subs, nCalls, src>>

----------------------------------------------------------------------------
\* The engine reacting to the abort signal itself, with no further message:
\* sdk      runTurn hands abortController to query(); the stream ends or throws,
\*          runTurn yields error and then done
\* pi       this.agent?.abort() ends the agent loop, which emits agent_end
\* runAgent query() is called without the signal; it is only read when a
\*          message arrives (RaBreak), so there is no such step
AbortSignalled(c) ==
  /\ turn[c].aborted
  /\ \/ \E k, k2 \in 0..Len(listeners) : SdkEvent(c, "error", k, k2)
     \/ \E tok \in DoneTokens(c), k, k2 \in 0..Len(listeners) : SdkDone(c, tok, k, k2)
     \/ \E k \in 0..Len(listeners) : PiEvent(c, "agent_end", k)

----------------------------------------------------------------------------
\* the id a connection that is not yet registered subscribes with
FreshId == IF subs = <<>> THEN "s1" ELSE "s2"

SdkEngine(Toks) ==
  \/ \E c \in Calls, ev \in {"text_delta", "error"}, k, k2 \in 0..Len(listeners) :
       SdkEvent(c, ev, k, k2)
  \/ \E c \in Calls, tok \in Toks \cup {EmptyTok}, k, k2 \in 0..Len(listeners) :
       SdkDone(c, tok, k, k2)
  \/ \E c \in Calls, k, k2 \in 0..Len(listeners) : SdkSaveDone(c, k, k2)
  \/ \E c \in Calls, k2 \in 0..Len(listeners) : SdkSaveFail(c, k2)

RaEngine(Toks) ==
  \/ \E c \in Calls, k \in 0..Len(listeners) : RaText(c, k)
  \/ \E c \in Calls, got \in Toks \cup {None}, k \in 0..Len(listeners) :
       RaResult(c, got, k)
  \/ \E c \in Calls, got \in Toks \cup {None} : RaBreak(c, got)
  \/ \E c \in Calls : RaReject(c)
  \/ \E c \in Calls, okSave \in BOOLEAN : RaSaveSettled(c, okSave)

PiEngine ==
  \/ \E c \in Calls, ev \in {"text_delta", "agent_end"}, k \in 0..Len(listeners) :
       PiEvent(c, ev, k)
  \/ \E c \in Calls : PiReject(c)

Watchdog ==
  \/ Tick
  \/ \E tm \in timers, k \in 0..Len(listeners) : TimeoutSignal(tm, k)
  \/ \E tm \in timers : TimeoutReject(tm)

\* the runtime without the clock: callers, subscribers, abort and the engine
Next ==
  \/ DoInit
  \/ \E s \in Sources : Prompt(s)
  \/ Subscribe(FreshId)
  \/ Abort
  \/ SdkEngine({<<"a">>})
  \/ RaEngine({<<"a">>})
  \/ PiEngine

Spec == Init /\ [][Next]_vars

\* the runtime with the clock and the watchdog timers, fewer callers
NextWatchdog ==
  \/ DoInit
  \/ nCalls < WdPrompts /\ \E s \in Sources : Prompt(s)
  \/ subs = <<>> /\ Subscribe("s1")
  \/ Unsubscribe(1)
  \/ Abort
  \/ Watchdog
  \/ SdkEngine({<<"a">>})
  \/ RaEngine({<<"a">>})
  \/ PiEngine

SpecWatchdog == Init /\ [][NextWatchdog]_vars

\* the session-state view: prompts, clearMessages, setModel, init and the engine,
\* with no subscriber and no clock
NextSession ==
  \/ DoInit
  \/ nCalls < SessPrompts /\ Prompt("A")
  \/ Abort
  \/ ClearMessages
  \/ UnlinkDone
  \/ SetModel("m1")
  \/ SdkEngine(EngineTokens)
  \/ RaEngine(EngineTokens)

SpecSession == InitSession /\ [][NextSession]_vars

\* the control calls (clear, setModel, abort, subscribe) against a running runtime
NextControl ==
  \/ DoInit
  \/ nCalls < CtlPrompts /\ \E s \in Sources : Prompt(s)
  \/ subs = <<>> /\ Subscribe("s1")
  \/ Abort
  \/ ClearMessages
  \/ UnlinkDone
  \/ SetModel("m1")
  \/ SdkEngine({<<"a">>})
  \/ RaEngine({<<"a">>})

SpecControl == InitSession /\ [][NextControl]_vars

\* the subscriber view: connections subscribe per reply under ids that repeat,
\* and unsubscribe, while the sdk runtime runs turns
InitSubscribe ==
  /\ variant = "sdk"
  /\ disk = None
  /\ cgen = "gemini"
  /\ openrouterKey = FALSE
  /\ call = NoCall
  /\ now = 0
  /\ Constructed

NextSubscribe ==
  \/ \E id \in SubIds : Subscribe(id)
  \/ \E k \in 1..MaxSubs : Unsubscribe(k)
  \/ nCalls < SubPrompts /\ Prompt("A")
  \/ SdkEngine({<<"a">>})

SpecSubscribe == InitSubscribe /\ [][NextSubscribe]_vars

----------------------------------------------------------------------------
(* Context compaction: createAgent installs compactContext as the agent's   *)
(* transformContext hook.  Three generations of it are in the repository:  *)
(*   "gemini"  summary or trimToLimit fallback, written back to the store   *)
(*   "haiku"   summary only, [] on failure, stored history untouched        *)
(*   "tail"    summary + the most recent messages, stored history untouched *)
(* A message is its text (a sequence of characters); sizes are scaled.     *)

CompactGens == {"gemini", "haiku", "tail"}

\* the marker the summary message starts with
COMPACTION_CODE == <<"#">>
\* "[Summary of conversation so far]" of the "tail" generation
SUMMARY_HEADING == <<"$">>

\* what the summarizer's stream may deliver before trim()
SummaryTexts == {<<>>, <<" ">>, <<"s">>, <<"s", " ">>, <<"s", "s">>}
\* how the summarization call may fail outright
Failures == {"none", "noModel", "stream"}

MsgText(n) == [i \in 1..n |-> "x"]
Message(text) == [role |-> "user", content |-> text]

\* countContextChars: the sum of the text lengths
RECURSIVE CountContextChars(_)
CountContextChars(msgs) ==
  IF msgs = <<>> THEN 0 ELSE Len(Head(msgs).content) + CountContextChars(Tail(msgs))

\* trimToLimit: while (trimmed.length > 1 && count > MAX) trimmed = trimmed.slice(1)
RECURSIVE TrimToLimit(_)
TrimToLimit(msgs) ==
  IF Len(msgs) > 1 /\ CountContextChars(msgs) > MAX_CONTEXT_CHARS
  THEN TrimToLimit(Tail(msgs))
  ELSE msgs

\* summarizeWithGemini / summarizeWithHaiku: the model lookup or the stream may
\* throw; the text is trimmed; an empty summary throws except in "tail"
Summarize(gen, raw, fail) ==
  IF fail # "none" THEN [ok |-> FALSE, cause |-> fail, text |-> <<>>]
  ELSE IF gen # "tail" /\ Trim(raw) = <<>>
       THEN [ok |-> FALSE, cause |-> "empty", text |-> <<>>]
       ELSE [ok |-> TRUE, cause |-> "-", text |-> Trim(raw)]

\* content: `${COMPACTION_CODE}\n\n${summary}`
SummaryMessage(heading, summary) == Message(heading \o <<"\n", "\n">> \o summary)

\* mutant: the catch block rethrows the summarization error
SummaryFailedRethrow(msgs, cause) ==
  [path |-> "failed", cause |-> cause, threw |-> TRUE, wrote |-> FALSE,
   in |-> msgs, out |-> <<>>, summary |-> <<>>]

\* "gemini": catch (err) { trimmed = trimToLimit(messages); writeBack(trimmed); return trimmed }
SummaryFailed(msgs, cause) ==
  [path |-> "failed", cause |-> cause, threw |-> FALSE, wrote |-> TRUE,
   in |-> msgs, out |-> TrimToLimit(msgs), summary |-> <<>>]

Under(msgs) ==
  [path |-> "under", cause |-> "-", threw |-> FALSE, wrote |-> FALSE,
   in |-> msgs, out |-> msgs, summary |-> <<>>]

\* compactContext(messages, openrouterKey, writeBack) of part_014
CompactGemini(msgs, key, raw, fail) ==
  LET sm == Summarize("gemini", raw, fail) IN
  IF CountContextChars(msgs) <= MAX_CONTEXT_CHARS THEN Under(msgs)
  ELSE IF ~key
  THEN [path |-> "nokey", cause |-> "nokey", threw |-> FALSE, wrote |-> TRUE,
        in |-> msgs, out |-> TrimToLimit(msgs), summary |-> <<>>]
  ELSE IF ~sm.ok THEN SummaryFailed(msgs, sm.cause)
  ELSE [path |-> "summary", cause |-> "-", threw |-> FALSE, wrote |-> TRUE,
        in |-> msgs, out |-> <<SummaryMessage(COMPACTION_CODE, sm.text)>>,
        summary |-> sm.text]

\* compactContext(messages) of part_021, first module: no write-back, [] on failure
CompactHaiku(msgs, raw, fail) ==
  LET sm == Summarize("haiku", raw, fail) IN
  IF CountContextChars(msgs) <= MAX_CONTEXT_CHARS THEN Under(msgs)
  ELSE IF ~sm.ok
  THEN [path |-> "failed", cause |-> sm.cause, threw |-> FALSE, wrote |-> FALSE,
        in |-> msgs, out |-> <<>>, summary |-> <<>>]
  ELSE [path |-> "summary", cause |-> "-", threw |-> FALSE, wrote |-> FALSE,
        in |-> msgs, out |-> <<SummaryMessage(COMPACTION_CODE, sm.text)>>,
        summary |-> sm.text]

\* compactContext(messages) of part_021, second module: summary of the old part
\* followed by the RECENT_MESSAGES_TO_KEEP most recent messages
CompactTail(msgs, raw, fail) ==
  LET sm == Summarize("tail", raw, fail)
      splitAt == IF Len(msgs) > RECENT_MESSAGES_TO_KEEP
                 THEN Len(msgs) - RECENT_MESSAGES_TO_KEEP ELSE 0
      recent == SubSeq(msgs, splitAt + 1, Len(msgs))
  IN IF CountContextChars(msgs) <= MAX_CONTEXT_CHARS THEN Under(msgs)
     ELSE IF ~sm.ok
     THEN [path |-> "failed", cause |-> sm.cause, threw |-> FALSE, wrote |-> FALSE,
           in |-> msgs, out |-> recent, summary |-> <<>>]
     ELSE [path |-> "summary", cause |-> "-", threw |-> FALSE, wrote |-> FALSE,
           in |-> msgs, out |-> <<SummaryMessage(SUMMARY_HEADING, sm.text)>> \o recent,
           summary |-> sm.text]

CompactContext(gen, msgs, key, raw, fail) ==
  IF gen = "gemini" THEN CompactGemini(msgs, key, raw, fail)
  ELSE IF gen = "haiku" THEN CompactHaiku(msgs, raw, fail)
  ELSE CompactTail(msgs, raw, fail)

\* writeBack: agent.state.messages.splice(0, length, ...compacted)
WriteBack(stored, r) == IF r.wrote THEN r.out ELSE stored

\* the agent loop appends a message (prompt, reply or tool result) to the store
AgentAppend(n) ==
  /\ Len(messages) < MaxHist
  /\ messages' = Append(messages, Message(MsgText(n)))
  /\ result' = NoResult
  /\ UNCHANGED <<cgen, openrouterKey>>
  /\ UNCHANGED <<boxvars, pvars>>

\* the agent loop calls transformContext(messages) before it calls the model
TransformContext(raw, fail) ==
  /\ messages # <<>>
  /\ LET r == CompactContext(cgen, messages, openrouterKey, raw, fail)
     IN /\ result' = r
        /\ messages' = WriteBack(messages, r)
  /\ UNCHANGED <<cgen, openrouterKey>>
  /\ UNCHANGED <<boxvars, pvars>>

InitCompact ==
  /\ variant = "pi"
  /\ disk = None
  /\ cgen \in CompactGens
  /\ openrouterKey \in BOOLEAN
  /\ cgen # "gemini" => ~openrouterKey
  /\ call = NoCall
  /\ now = 0
  /\ Constructed

NextCompact ==
  \/ \E n \in 1..MaxMsgChars : AgentAppend(n)
  \/ \E raw \in SummaryTexts, fail \in Failures : TransformContext(raw, fail)

SpecCompact == InitCompact /\ [][NextCompact]_vars

----------------------------------------------------------------------------
(* countContextChars over structured messages.  A message's content is a   *)
(* string (field content) or an array of parts (field parts); a part       *)
(* carries the fields of its kind.                                         *)

\* the two generations of countContextChars
CountGens == {"part_014", "agent.ts"}

\* tool-call arguments: objects with string keys and values
ArgObjects == {<<>>, <<<<"k", "v">>>>}

RECURSIVE JsonMembers(_)
JsonMembers(o) ==
  IF o = <<>> THEN <<>>
  ELSE <<"\"">> \o <<o[1][1]>> \o <<"\"", ":", "\"">> \o <<o[1][2]>> \o <<"\"">>
       \o (IF Len(o) > 1 THEN <<",">> ELSE <<>>) \o JsonMembers(Tail(o))

\* JSON.stringify of such an object
JsonStringify(o) == <<"{">> \o JsonMembers(o) \o <<"}">>

\* the parts a history can hold: text and thinking parts, a streamed tool call,
\* tool calls as { type: "toolCall", arguments } and as { type: "tool_use", input },
\* tool results as { type: "tool_result", content } with a string (field content)
\* or an array (field contentParts)
ContentParts ==
  {[type |-> "text", text |-> <<"a", "b">>],
   [type |-> "thinking", thinking |-> <<"c">>],
   [type |-> "image", data |-> <<"i", "i">>]}
  \cup {[type |-> "toolCall", arguments |-> o] : o \in ArgObjects}
  \cup {[type |-> "tool_use", input |-> o, partialJson |-> <<"{">>] : o \in {<<>>}}
  \cup {[type |-> "tool_use", input |-> o] : o \in ArgObjects}
  \cup {[type |-> "tool_result", content |-> <<"o", "u", "t">>],
        [type |-> "tool_result",
         contentParts |-> <<[type |-> "text", text |-> <<"o">>],
                       [type |-> "image", data |-> <<"i">>],
                       [type |-> "text", text |-> <<"u", "t">>]>>]}

Has(c, field) == field \in DOMAIN c

RECURSIVE ResultTextChars(_)
ResultTextChars(rs) ==
  IF rs = <<>> THEN 0
  ELSE (IF Has(Head(rs), "text") THEN Len(Head(rs).text) ELSE 0)
       + ResultTextChars(Tail(rs))

\* one pass of the inner loop of countContextChars
PartChars(gen, c) ==
    (IF Has(c, "text") THEN Len(c.text) ELSE 0)
  + (IF Has(c, "thinking") THEN Len(c.thinking) ELSE 0)
  + (IF Has(c, "partialJson") THEN Len(c.partialJson) ELSE 0)
  + (IF gen = "part_014" /\ c.type = "tool_use" /\ Has(c, "input")
     THEN Len(JsonStringify(c.input)) ELSE 0)
  + (IF gen = "part_014" /\ c.type = "tool_result"
     THEN (IF Has(c, "contentParts") THEN ResultTextChars(c.contentParts)
           ELSE IF Has(c, "content") THEN Len(c.content) ELSE 0)
     ELSE 0)

RECURSIVE PartsChars(_, _)
PartsChars(gen, cs) ==
  IF cs = <<>> THEN 0 ELSE PartChars(gen, Head(cs)) + PartsChars(gen, Tail(cs))

\* countContextChars(messages)
RECURSIVE CountChars(_, _)
CountChars(gen, msgs) ==
  IF msgs = <<>> THEN 0
  ELSE (IF Has(Head(msgs), "parts") THEN PartsChars(gen, Head(msgs).parts)
        ELSE IF Has(Head(msgs), "content") THEN Len(Head(msgs).content)
        ELSE 0)
       + CountChars(gen, Tail(msgs))

\* the measure the description gives: every text-bearing field of every part,
\* the serialized arguments of every tool call, every tool-result payload
TextBearing(c) ==
    (IF Has(c, "text") THEN Len(c.text) ELSE 0)
  + (IF Has(c, "thinking") THEN Len(c.thinking) ELSE 0)
  + (IF Has(c, "partialJson") THEN Len(c.partialJson) ELSE 0)
  + (IF Has(c, "input") THEN Len(JsonStringify(c.input)) ELSE 0)
  + (IF Has(c, "arguments") THEN Len(JsonStringify(c.arguments)) ELSE 0)
  + (IF c.type = "tool_result"
     THEN (IF Has(c, "contentParts") THEN ResultTextChars(c.contentParts)
           ELSE IF Has(c, "content") THEN Len(c.content) ELSE 0)
     ELSE 0)

RECURSIVE TextChars(_)
TextChars(msgs) ==
  IF msgs = <<>> THEN 0
  ELSE (IF Has(Head(msgs), "parts")
        THEN (IF Head(msgs).parts = <<>> THEN 0
              ELSE TextBearing(Head(msgs).parts[1])
                   + TextChars(<<[Head(msgs) EXCEPT !.parts = Tail(@)]>>))
        ELSE Len(Head(msgs).content))
       + TextChars(Tail(msgs))

\* messages with a string content or with an array of at most MaxParts parts
MeasuredMessages ==
  {[role |-> "user", content |-> t] : t \in {<<>>, <<"h", "i">>}}
  \cup {[role |-> "assistant", parts |-> cs] :
          cs \in UNION {[1..n -> ContentParts] : n \in 0..MaxParts}}

InitMeasure ==
  /\ variant = "pi"
  /\ disk = None
  /\ cgen = "gemini"
  /\ openrouterKey = FALSE
  /\ now = 0
  /\ Constructed
  /\ \E g \in CountGens, n \in 0..MaxMeasured :
       \E msgs \in [1..n -> MeasuredMessages] :
         call = [NoCall EXCEPT !.fn = "countContextChars", !.gen = g, !.in = msgs]

CountContextCharsCall ==
  /\ call.fn = "countContextChars"
  /\ ~call.done
  /\ call' = [call EXCEPT !.out = CountChars(call.gen, call.in), !.done = TRUE]
  /\ UNCHANGED <<now, boxvars, cvars>>

NextMeasure == CountContextCharsCall

SpecMeasure == InitMeasure /\ [][NextMeasure]_vars

----------------------------------------------------------------------------
(* The checkpoint files.  Three generations, one per generation of the     *)
(* class: "sdk" keeps the bare token in session_id (part_013), "runAgent"  *)
(* keeps {sessionId, savedAt} in session.json (core/checkpoint.ts), "pi"   *)
(* keeps {savedAt, messages} in checkpoint.json (telegram.ts).  A file is  *)
(* its sequence of characters; the names and punctuation JSON.stringify    *)
(* writes are single lexemes, string contents are escaped per character.   *)

\* tokens handed to save: session ids, with the characters JSON must escape and
\* the white space trim() removes; for "pi" each character is one message
CkTokens == {<<>>, <<"a">>, <<" ", "a">>, <<"a", " ">>, <<"\"">>, <<"a", "\\">>}

Digits == <<"0", "1", "2", "3", "4", "5", "6", "7", "8", "9">>
Digit(n) == Digits[n + 1]
IsDigit(ch) == \E n \in 0..9 : Digit(n) = ch
DigitValue(ch) == CHOOSE n \in 0..9 : Digit(n) = ch

\* mutant: quotes and backslashes are written unescaped
JsonEscapeNothing(s) == s

\* JSON.stringify of a string, between the quotes
RECURSIVE JsonEscape(_)
JsonEscape(s) ==
  IF s = <<>> THEN <<>>
  ELSE (IF Head(s) \in {"\"", "\\"} THEN <<"\\", Head(s)>> ELSE <<Head(s)>>)
       \o JsonEscape(Tail(s))

JsonQuote(s) == <<"\"">> \o JsonEscape(s) \o <<"\"">>

RECURSIVE JsonArray(_)
JsonArray(ms) ==
  IF ms = <<>> THEN <<>>
  ELSE JsonQuote(<<Head(ms)>>) \o (IF Len(ms) > 1 THEN <<",">> ELSE <<>>)
       \o JsonArray(Tail(ms))

ParseFail == [ok |-> FALSE, val |-> <<>>, next |-> 0]

\* JSON.parse of a string literal, from the character after the opening quote
RECURSIVE ParseChars(_, _, _)
ParseChars(f, i, acc) ==
  IF i > Len(f) THEN ParseFail
  ELSE IF f[i] = "\"" THEN [ok |-> TRUE, val |-> acc, next |-> i + 1]
  ELSE IF f[i] = "\\"
       THEN (IF i + 1 > Len(f) THEN ParseFail
             ELSE ParseChars(f, i + 2, Append(acc, f[i + 1])))
       ELSE ParseChars(f, i + 1, Append(acc, f[i]))

ParseString(f, i) ==
  IF i <= Len(f) /\ f[i] = "\"" THEN ParseChars(f, i + 1, <<>>) ELSE ParseFail

\* JSON.parse of the elements of an array of one-character strings, up to "]"
RECURSIVE ParseArray(_, _, _)
ParseArray(f, i, acc) ==
  IF i > Len(f) THEN ParseFail
  ELSE IF f[i] = "]" THEN [ok |-> TRUE, val |-> acc, next |-> i + 1]
  ELSE IF f[i] = "," THEN ParseArray(f, i + 1, acc)
  ELSE LET s == ParseString(f, i)
       IN IF ~s.ok \/ Len(s.val) # 1 THEN ParseFail
          ELSE ParseArray(f, s.next, acc \o s.val)

\* saveSession: JSON.stringify({ sessionId, savedAt: Date.now() })
SessionJson(tok, t) ==
  <<"{", "sessionId", ":">> \o JsonQuote(tok) \o <<",", "savedAt", ":", Digit(t), "}">>

\* saveCheckpoint: JSON.stringify({ savedAt: Date.now(), messages })
CheckpointJson(ms, t) ==
  <<"{", "savedAt", ":", Digit(t), ",", "messages", ":", "[">>
    \o JsonArray(ms) \o <<"]", "}">>

NotFound == [found |-> FALSE, value |-> <<>>, savedAt |-> 0]
Found(v, t) == [found |-> TRUE, value |-> v, savedAt |-> t]

\* loadSessionId: readFile, then id.trim() || null; catch -> null
ReadSessionId(file) ==
  IF file = None \/ Trim(file) = <<>> THEN NotFound ELSE Found(Trim(file), 0)

\* loadSession: JSON.parse(raw).sessionId; catch -> null
ReadSessionJson(file) ==
  IF file = None \/ Len(file) < 4 \/ SubSeq(file, 1, 3) # <<"{", "sessionId", ":">>
  THEN NotFound
  ELSE LET s == ParseString(file, 4)
       IN IF /\ s.ok
             /\ Len(file) = s.next + 4
             /\ SubSeq(file, s.next, s.next + 2) = <<",", "savedAt", ":">>
             /\ IsDigit(file[s.next + 3])
             /\ file[s.next + 4] = "}"
          THEN Found(s.val, DigitValue(file[s.next + 3]))
          ELSE NotFound

\* JSON.parse of checkpoint.json
ParseCheckpoint(file) ==
  IF file = None \/ Len(file) < 10
     \/ SubSeq(file, 1, 3) # <<"{", "savedAt", ":">>
     \/ ~IsDigit(file[4])
     \/ SubSeq(file, 5, 8) # <<",", "messages", ":", "[">>
  THEN NotFound
  ELSE LET a == ParseArray(file, 9, <<>>)
       IN IF a.ok /\ Len(file) = a.next /\ file[a.next] = "}"
          THEN Found(a.val, DigitValue(file[4]))
          ELSE NotFound

\* loadCheckpoint: age = Date.now() - checkpoint.savedAt; age > MAX_CHECKPOINT_AGE_MS
Stale(t, savedAt) == t - savedAt > MAX_CHECKPOINT_AGE_MS

\* what load returns
Read(gen, file, t) ==
  IF gen = "sdk" THEN ReadSessionId(file)
  ELSE IF gen = "runAgent" THEN ReadSessionJson(file)
  ELSE LET c == ParseCheckpoint(file)
       IN IF c.found /\ Stale(t, c.savedAt) THEN NotFound ELSE c

\* what load leaves on disk: loadCheckpoint calls clearCheckpoint() on a stale file
AfterRead(gen, file, t) ==
  LET c == ParseCheckpoint(file)
  IN IF gen = "pi" /\ c.found /\ Stale(t, c.savedAt) THEN None ELSE file

\* what save leaves on disk; saveCheckpoint returns early on an empty history
Written(gen, file, tok, t) ==
  IF gen = "sdk" THEN tok
  ELSE IF gen = "runAgent" THEN SessionJson(tok, t)
  ELSE IF tok = <<>> THEN file
  ELSE CheckpointJson(tok, t)

Previous == [fn |-> call.fn, in |-> call.in]

InitCheckpoint ==
  /\ variant \in Variants
  /\ disk = None
  /\ cgen = "gemini"
  /\ openrouterKey = FALSE
  /\ call = NoCall
  /\ now = 0
  /\ Constructed

\* saveSessionId / saveSession / saveCheckpoint
CkSave(tok) ==
  /\ disk' = Written(variant, disk, tok, now)
  /\ call' = [NoCall EXCEPT !.fn = "save", !.gen = variant, !.in = tok, !.done = TRUE,
                            !.prev = Previous, !.was = disk, !.at = now]
  /\ UNCHANGED <<now, cvars, variant, initialized, sessionId, unlinking, model, listeners,
                 subs, queue, busy, nCalls, src, pc, turn, abortCtl, timers, started,
                 emitted, ended, wd>>

\* loadSessionId / loadSession / loadCheckpoint
CkLoad ==
  /\ disk' = AfterRead(variant, disk, now)
  /\ call' = [NoCall EXCEPT !.fn = "load", !.gen = variant, !.done = TRUE,
                            !.out = Read(variant, disk, now),
                            !.prev = Previous, !.was = disk, !.at = now]
  /\ UNCHANGED <<now, cvars, variant, initialized, sessionId, unlinking, model, listeners,
                 subs, queue, busy, nCalls, src, pc, turn, abortCtl, timers, started,
                 emitted, ended, wd>>

\* clearSessionId / clearSession / clearCheckpoint: try { unlink } catch {}
CkClear ==
  /\ disk' = None
  /\ call' = [NoCall EXCEPT !.fn = "clear", !.gen = variant, !.done = TRUE,
                            !.prev = Previous, !.was = disk, !.at = now]
  /\ UNCHANGED <<now, cvars, variant, initialized, sessionId, unlinking, model, listeners,
                 subs, queue, busy, nCalls, src, pc, turn, abortCtl, timers, started,
                 emitted, ended, wd>>

\* Date.now() advances
CkTick ==
  /\ now < MaxNow
  /\ now' = now + 1
  /\ UNCHANGED <<call, boxvars, cvars>>

NextCheckpoint ==
  \/ \E tok \in CkTokens : CkSave(tok)
  \/ CkLoad
  \/ CkClear
  \/ CkTick

SpecCheckpoint == InitCheckpoint /\ [][NextCheckpoint]_vars

----------------------------------------------------------------------------
(* runTurn, the engine adapter: an async generator over the engine's       *)
(* messages.  Two generations: "sdk" iterates query() of claude-agent-sdk, *)
(* "subprocess" spawns the claude binary, buffers the events parsed from   *)
(* its stdout and yields them after the process has closed.                *)

AdapterGens == {"sdk", "subprocess"}

\* what the engine can send: assistant text, a tool call, a tool result, the
\* final result (ok or is_error), an assistant message flagged with an API error
EngineMsgKinds == {"text", "tool_use", "tool_result", "result_ok", "result_error",
                   "api_error"}
\* the session_id a message carries, empty when it carries none
EngineSids == {<<>>, <<"s">>}

AgentEvent(type) == [type |-> type, sessionId |-> <<>>]
DoneEvent(sid) == [type |-> "done", sessionId |-> sid]

\* translateMessage(msg)
TranslateMessage(gen, kind) ==
  IF kind = "text" THEN <<AgentEvent("text_delta")>>
  ELSE IF kind = "tool_use" THEN <<AgentEvent("tool_start")>>
  ELSE IF kind = "tool_result"
       THEN (IF gen = "subprocess" THEN <<AgentEvent("tool_end")>> ELSE <<>>)
  ELSE IF kind = "result_error" THEN <<AgentEvent("error")>>
  ELSE IF kind = "api_error"
       THEN (IF gen = "sdk" THEN <<AgentEvent("error")>> ELSE <<AgentEvent("text_delta")>>)
  ELSE <<>>

\* if (msg.session_id) resolvedSessionId = msg.session_id
Resolved(sid, msgSid) == IF msgSid # <<>> THEN msgSid ELSE sid

InitAdapter ==
  /\ variant = "sdk"
  /\ disk = None
  /\ cgen = "gemini"
  /\ openrouterKey = FALSE
  /\ now = 0
  /\ Constructed
  /\ \E g \in AdapterGens, s \in {None, <<"r">>} :
       call = [fn |-> "runTurn", gen |-> g, in |-> s, out |-> <<>>, done |-> FALSE,
               pc |-> "stream", sid |-> IF s = None THEN <<>> ELSE s,
               buf |-> <<>>, n |-> 0]

\* the engine delivers one message: the sdk generation yields its events at
\* once, the subprocess generation pushes them onto eventQueue
AdMessage(kind, msgSid) ==
  /\ call.fn = "runTurn"
  /\ call.pc = "stream"
  /\ call.n < MaxAdapterMsgs
  /\ call' = [call EXCEPT
       !.n = @ + 1,
       !.sid = Resolved(@, msgSid),
       !.out = IF call.gen = "sdk" THEN @ \o TranslateMessage("sdk", kind) ELSE @,
       !.buf = IF call.gen = "subprocess"
               THEN @ \o TranslateMessage("subprocess", kind) ELSE @]
  /\ UNCHANGED <<now, boxvars, cvars>>

\* the engine's stream ends; the subprocess closes with an exit code
AdEnd(code) ==
  /\ call.fn = "runTurn"
  /\ call.pc = "stream"
  /\ call.gen = "sdk" => code = 0
  /\ IF call.gen = "subprocess" /\ code # 0 /\ call.buf = <<>>
     THEN call' = [call EXCEPT !.pc = "thrown"]
     ELSE call' = [call EXCEPT !.pc = "returned", !.done = TRUE,
                               !.out = @ \o call.buf \o <<DoneEvent(call.sid)>>]
  /\ UNCHANGED <<now, boxvars, cvars>>

\* query() or its stream throws; the subprocess emits 'error' (spawn failed)
AdThrow ==
  /\ call.fn = "runTurn"
  /\ call.pc = "stream"
  /\ IF call.gen = "sdk"
     THEN call' = [call EXCEPT !.pc = "returned", !.done = TRUE,
                               !.out = @ \o <<AgentEvent("error"), DoneEvent(call.sid)>>]
     ELSE call' = [call EXCEPT !.pc = "thrown"]
  /\ UNCHANGED <<now, boxvars, cvars>>

NextAdapter ==
  \/ \E kind \in EngineMsgKinds, msgSid \in EngineSids : AdMessage(kind, msgSid)
  \/ \E code \in {0, 1} : AdEnd(code)
  \/ AdThrow

SpecAdapter == InitAdapter /\ [][NextAdapter]_vars

----------------------------------------------------------------------------
(* The scheduler daemon: resolveNotify and runTask (daemon/scheduler.ts).  *)

UpperChars == <<"A", "B", "C", "D", "E", "F", "G", "H", "I", "J", "K", "L", "M",
                "N", "O", "P", "Q", "R", "S", "T", "U", "V", "W", "X", "Y", "Z">>
LowerChars == <<"a", "b", "c", "d", "e", "f", "g", "h", "i", "j", "k", "l", "m",
                "n", "o", "p", "q", "r", "s", "t", "u", "v", "w", "x", "y", "z">>

ToLowerChar(ch) ==
  IF \E i \in 1..26 : UpperChars[i] = ch
  THEN LowerChars[CHOOSE i \in 1..26 : UpperChars[i] = ch]
  ELSE ch

\* mutant: the output is searched as it is
ToLowerCaseNoop(s) == s

\* output.toLowerCase()
ToLowerCase(s) == [i \in 1..Len(s) |-> ToLowerChar(s[i])]

\* lower.includes(word)
Includes(s, word) ==
  \E i \in 1..(Len(s) - Len(word) + 1) : SubSeq(s, i, i + Len(word) - 1) = word

\* the words resolveNotify looks for, in the order of its || chain
ProblemKeywords ==
  << <<"w", "a", "r", "n", "i", "n", "g">>,
     <<"e", "r", "r", "o", "r">>,
     <<"c", "r", "i", "t", "i", "c", "a", "l">>,
     <<"d", "o", "w", "n">>,
     <<"f", "a", "i", "l">>,
     <<"i", "s", "s", "u", "e">>,
     <<"a", "l", "e", "r", "t">> >>

\* type NotifyMode = boolean | "on_issue"
NotifyModes == {"true", "false", "on_issue"}

\* resolveNotify(notify, success, output)
ResolveNotify(notify, success, output) ==
  IF notify = "false" THEN FALSE
  ELSE IF notify = "true" THEN TRUE
  ELSE IF notify = "on_issue"
       THEN IF ~success THEN TRUE
            ELSE LET lower == ToLowerCase(output)
                 IN \E k \in 1..Len(ProblemKeywords) : Includes(lower, ProblemKeywords[k])
  ELSE FALSE

\* task outputs: a keyword in some casing, or a near miss, inside other text
NotifyOutputs ==
  LET words ==
  {ProblemKeywords[k] : k \in 1..Len(ProblemKeywords)}
  \cup { <<"W", "a", "r", "n", "i", "n", "g">>, <<"E", "R", "R", "O", "R">>,
         <<"D", "o", "W", "n">>, <<"F", "A", "I", "L", "e", "d">>,
         <<"A", "l", "e", "r", "t">>, <<"C", "R", "I", "T", "I", "C", "A", "L">>,
         <<"I", "s", "s", "u", "e">>,
         <<"o", "k">>, <<"O", "K">>, <<"w", "a", "r", "n">>, <<"e", "r", "r", " ", "o", "r">>,
         <<"d", "a", "w", "n">>, <<"f", "a", "l", "l">>, <<"a", "l", "e", "r", "_", "t">>,
         <<>> }
  IN {pre \o w \o post : pre \in {<<>>, <<"x", " ">>}, w \in words,
                          post \in {<<>>, <<"s">>}}

InitNotify ==
  /\ variant = "sdk"
  /\ disk = None
  /\ cgen = "gemini"
  /\ openrouterKey = FALSE
  /\ now = 0
  /\ Constructed
  /\ \E m \in NotifyModes, ok \in BOOLEAN, o \in NotifyOutputs :
       call = [fn |-> "resolveNotify", notify |-> m, success |-> ok, output |-> o,
               out |-> FALSE, done |-> FALSE]

ResolveNotifyCall ==
  /\ call.fn = "resolveNotify"
  /\ ~call.done
  /\ call' = [call EXCEPT !.out = ResolveNotify(call.notify, call.success, call.output),
                          !.done = TRUE]
  /\ UNCHANGED <<now, boxvars, cvars>>

NextNotify == ResolveNotifyCall

SpecNotify == InitNotify /\ [][NextNotify]_vars

\* the tasks of schedule.json
Tasks == {"t1", "t2"}

\* what a run of the agent can end in: the text it produced, an error event
\* (runAgentPrompt throws), or runTurn itself throwing
AgentOutcomes == {"text", "error_event", "throws"}

\* outputs of a successful run: nothing to report, or a problem mentioned
TaskOutputs == {<<"o", "k">>, <<"D", "o", "w", "n">>}

\* `Task failed: ${err.message}`
TaskFailedOutput == <<"T", "a", "s", "k", " ", "f", "a", "i", "l", "e", "d">>

IdleRun == [pc |-> "idle", success |-> TRUE, output |-> <<>>, cause |-> "-"]

NoTaskResult == [taskId |-> "-", success |-> TRUE, output |-> <<>>, cause |-> "-",
                 notified |-> FALSE, sendFailed |-> FALSE, rejected |-> FALSE]

\* runTask returns its TaskResult
TaskReturns(t, r, sent, sendFailed) ==
  [taskId |-> t, success |-> r.success, output |-> r.output, cause |-> r.cause,
   notified |-> sent, sendFailed |-> sendFailed, rejected |-> FALSE]

\* mutant: the notification is sent outside any try block
SendFailedEscapes(t, r) ==
  [TaskReturns(t, r, FALSE, TRUE) EXCEPT !.rejected = TRUE]

\* catch (err) { await log("Failed to send Telegram notification") }
SendFailed(t, r) == TaskReturns(t, r, FALSE, TRUE)

InitScheduler ==
  /\ variant = "sdk"
  /\ disk = None
  /\ cgen = "gemini"
  /\ openrouterKey = FALSE
  /\ now = 0
  /\ Constructed
  /\ \E ms \in [Tasks -> NotifyModes], tg \in BOOLEAN :
       call = [fn |-> "scheduler", notify |-> ms, telegram |-> tg,
               runs |-> [t \in Tasks |-> IdleRun], fired |-> 0,
               last |-> NoTaskResult, failures |-> 0, sendFailures |-> 0]

\* the cron callback of task t fires and calls runTask
CronFire(t) ==
  /\ call.fn = "scheduler"
  /\ call.runs[t].pc = "idle"
  /\ call.fired < MaxFirings
  /\ call' = [call EXCEPT !.runs[t].pc = "agent", !.fired = @ + 1,
                          !.last = NoTaskResult]
  /\ UNCHANGED <<now, boxvars, cvars>>

\* runTask: try { output = await runAgentPrompt(...) } catch { success = false },
\* then resolveNotify; without a notification due it returns the result
RunAgentPromptEnds(t, outcome, text) ==
  /\ call.fn = "scheduler"
  /\ call.runs[t].pc = "agent"
  /\ LET ok == outcome = "text"
         r == [pc |-> "notify", success |-> ok,
               output |-> IF ok THEN text ELSE TaskFailedOutput, cause |-> outcome]
         shouldNotify == ResolveNotify(call.notify[t], r.success, r.output)
         failed == IF ok THEN call.failures ELSE call.failures + 1
     IN IF shouldNotify /\ call.telegram
        THEN call' = [call EXCEPT !.runs[t] = r, !.failures = failed,
                                  !.last = NoTaskResult]
        ELSE call' = [call EXCEPT !.runs[t] = IdleRun, !.failures = failed,
                                  !.last = TaskReturns(t, r, FALSE, FALSE)]
  /\ UNCHANGED <<now, boxvars, cvars>>

\* runTask: try { await sendTelegramMessage(...) } catch { log }, return result
SendEnds(t, ok) ==
  /\ call.fn = "scheduler"
  /\ call.runs[t].pc = "notify"
  /\ call' = [call EXCEPT
       !.runs[t] = IdleRun,
       !.sendFailures = IF ok THEN @ ELSE @ + 1,
       !.last = IF ok THEN TaskReturns(t, call.runs[t], TRUE, FALSE)
                ELSE SendFailed(t, call.runs[t])]
  /\ UNCHANGED <<now, boxvars, cvars>>

NextScheduler ==
  \/ \E t \in Tasks : CronFire(t)
  \/ \E t \in Tasks, outcome \in AgentOutcomes, text \in TaskOutputs :
       RunAgentPromptEnds(t, outcome, text)
  \/ \E t \in Tasks, ok \in BOOLEAN : SendEnds(t, ok)

SpecScheduler == InitScheduler /\ [][NextScheduler]_vars

----------------------------------------------------------------------------
(* splitMessage (core/telegram-utils.ts), also inlined in sendTelegram of  *)
(* daemon/scheduler.ts.  One action per iteration of its while loop.       *)

\* texts of a letter, blanks and newlines
SplitTexts == UNION {[1..n -> {"a", " ", "\n"}] : n \in 0..MaxText}

\* remaining.lastIndexOf(ch, fromIndex), as a 0-based index, -1 when absent
LastIndexOf(s, ch, fromIndex) ==
  LET hits == {i \in 0..(Len(s) - 1) : i <= fromIndex /\ s[i + 1] = ch}
  IN IF hits = {} THEN -1 ELSE CHOOSE i \in hits : \A j \in hits : j <= i

\* mutant: the first character of what remains is dropped whatever it is
TrimStartAnyChar(s) == IF s # <<>> THEN Tail(s) ELSE s

\* remaining.trimStart()
RECURSIVE TrimStart(_)
TrimStart(s) ==
  IF s # <<>> /\ Head(s) \in {" ", "\n"} THEN TrimStart(Tail(s)) ELSE s

\* mutant: the hard split is taken one character too far
SplitPointOffByOne(remaining, maxLen) ==
  LET split == LastIndexOf(remaining, "\n", maxLen)
  IN IF 2 * split < maxLen THEN maxLen + 1 ELSE split

\* split = remaining.lastIndexOf("\n", maxLen); if (split < maxLen * 0.5) split = maxLen
SplitPoint(remaining, maxLen) ==
  LET split == LastIndexOf(remaining, "\n", maxLen)
  IN IF 2 * split < maxLen THEN maxLen ELSE split

InitSplit ==
  /\ variant = "sdk"
  /\ disk = None
  /\ cgen = "gemini"
  /\ openrouterKey = FALSE
  /\ now = 0
  /\ Constructed
  /\ \E text \in SplitTexts, maxLen \in 1..MaxChunk :
       call = [fn |-> "splitMessage", in |-> text, maxLen |-> maxLen,
               remaining |-> text, chunks |-> <<>>, iters |-> 0, done |-> FALSE]

\* if (text.length <= maxLen) return [text]
SplitReturnsWhole ==
  /\ call.fn = "splitMessage"
  /\ ~call.done
  /\ Len(call.in) <= call.maxLen
  /\ call' = [call EXCEPT !.chunks = <<call.in>>, !.remaining = <<>>, !.done = TRUE]
  /\ UNCHANGED <<now, boxvars, cvars>>

\* one pass of while (remaining.length > 0) { ... }
SplitLoop ==
  /\ call.fn = "splitMessage"
  /\ ~call.done
  /\ Len(call.in) > call.maxLen
  /\ IF call.remaining = <<>>
     THEN call' = [call EXCEPT !.done = TRUE]
     ELSE IF Len(call.remaining) <= call.maxLen
     THEN call' = [call EXCEPT !.chunks = Append(@, call.remaining),
                               !.remaining = <<>>, !.done = TRUE]
     ELSE LET split == SplitPoint(call.remaining, call.maxLen)
          IN call' = [call EXCEPT
               !.chunks = Append(@, SubSeq(call.remaining, 1, split)),
               !.remaining = TrimStart(SubSeq(call.remaining, split + 1,
                                              Len(call.remaining))),
               !.iters = @ + 1]
  /\ UNCHANGED <<now, boxvars, cvars>>

NextSplit ==
  \/ SplitReturnsWhole
  \/ SplitLoop

SpecSplit == InitSplit /\ [][NextSplit]_vars

----------------------------------------------------------------------------
(* The memory write-back module (MemoryModule) on top of the pi runtime:   *)
(* an idle timer re-armed by markActivity(), and _onIdle, which checks the *)
(* saved-today marker, awaits agentbox.prompt and then writes the marker.  *)
(* Its state is held in `call`; time is `now`, in units of a minute.       *)

\* source of the write-back prompt
MEMORY_SOURCE == "memory:internal"

IdleRuns == 1..MaxIdleRuns

\* an _onIdle invocation that is not running
NoIdleRun == [pc |-> "none", wb |-> 0]

\* _onIdle has set firedThisIdlePeriod and is about to call agentbox.prompt:
\* the assignment and the call are one synchronous stretch of code
PendingCall ==
  \E r \in IdleRuns : call.runs[r].pc = "prompting" /\ call.runs[r].wb > nCalls

\* the runtime constructed; once agentbox.init() has run, memory.init() has
\* registered onActivity and scheduled the first idle check (the entrypoint awaits
\* both before it starts a connection); the marker of an earlier run may exist
InitMemory ==
  /\ variant = "pi"
  /\ disk = None
  /\ cgen = "gemini"
  /\ openrouterKey = FALSE
  /\ now = 0
  /\ Constructed
  /\ \E m \in BOOLEAN :
       call = [fn |-> "memory", armed |-> TRUE, deadline |-> idleMinutes,
               firedThisIdlePeriod |-> FALSE, marker |-> m,
               runs |-> [r \in IdleRuns |-> NoIdleRun],
               lastActivity |-> 0, enqueued |-> 0]

\* markActivity() -> _onUserActivity(): reset the flag, re-arm the timer
MarkActivity ==
  /\ initialized
  /\ ~PendingCall
  /\ call' = [call EXCEPT !.firedThisIdlePeriod = FALSE, !.armed = TRUE,
                          !.deadline = now + idleMinutes,
                          !.lastActivity = now, !.enqueued = 0]
  /\ UNCHANGED <<now, boxvars, cvars>>

\* a minute passes; a due timer fires first and a file access takes less
IdleTick ==
  /\ initialized
  /\ ~PendingCall
  /\ now < MaxNow
  /\ ~(call.armed /\ now >= call.deadline)
  /\ \A r \in IdleRuns : call.runs[r].pc # "checking"
  /\ now' = now + 1
  /\ UNCHANGED <<call, boxvars, cvars>>

\* the idle timer fires: _onIdle up to `await isSavedToday()`
IdleTimerFires ==
  /\ ~PendingCall
  /\ call.armed /\ now >= call.deadline
  /\ IF call.firedThisIdlePeriod
     THEN call' = [call EXCEPT !.armed = FALSE]
     ELSE \E r \in IdleRuns :
            /\ call.runs[r].pc = "none"
            /\ \A q \in IdleRuns : q < r => call.runs[q].pc # "none"
            /\ call' = [call EXCEPT !.armed = FALSE, !.runs[r].pc = "checking"]
  /\ UNCHANGED <<now, boxvars, cvars>>

\* isSavedToday() resolves: return when the marker exists, else set the flag
\* and call agentbox.prompt (whose call index will be nCalls + 1)
IsSavedTodayResolves(r) ==
  /\ ~PendingCall
  /\ call.runs[r].pc = "checking"
  /\ IF call.marker
     THEN call' = [call EXCEPT !.runs[r] = NoIdleRun]
     ELSE /\ nCalls < MaxPrompts
          /\ call' = [call EXCEPT !.firedThisIdlePeriod = TRUE,
                                  !.runs[r] = [pc |-> "prompting", wb |-> nCalls + 1],
                                  !.enqueued = @ + 1]
  /\ UNCHANGED <<now, boxvars, cvars>>

\* agentbox.prompt resolved: await markSavedToday()
MarkSavedToday(r) ==
  /\ call.runs[r].pc = "prompting"
  /\ call.runs[r].wb <= nCalls
  /\ pc[call.runs[r].wb] = "returned"
  /\ call' = [call EXCEPT !.marker = TRUE, !.runs[r] = NoIdleRun]
  /\ UNCHANGED <<now, boxvars, cvars>>

\* agentbox.prompt rejected: catch (err) { console.error(...) }
WriteBackFailed(r) ==
  /\ call.runs[r].pc = "prompting"
  /\ call.runs[r].wb <= nCalls
  /\ pc[call.runs[r].wb] = "rejected"
  /\ call' = [call EXCEPT !.runs[r] = NoIdleRun]
  /\ UNCHANGED <<now, boxvars, cvars>>

NextMemory ==
  \/ ~PendingCall /\ DoInit
  \/ initialized /\ ~PendingCall /\ Prompt("A")
  \/ PendingCall /\ Prompt(MEMORY_SOURCE)
  \/ ~PendingCall /\ PiEngine
  \/ MarkActivity
  \/ IdleTick
  \/ IdleTimerFires
  \/ \E r \in IdleRuns : IsSavedTodayResolves(r)
  \/ \E r \in IdleRuns : MarkSavedToday(r)
  \/ \E r \in IdleRuns : WriteBackFailed(r)

SpecMemory == InitMemory /\ [][NextMemory]_vars

----------------------------------------------------------------------------
(* Properties *)

DrainLoops == {c \in Calls : pc[c] = "draining"}

\* C1: single-flight -- under every interleaving of prompt() calls, turn
\* completions, engine errors, watchdog timeouts and abort() calls, at most one
\* turn (one _runPrompt with its engine call) is in flight.
C1_SingleFlight == Cardinality(Active) <= 1 /\ Cardinality(DrainLoops) <= 1

\* a turn is running, timed out and aborted, while a later request waits
C1_Witness ==
  /\ Cardinality(Active) = 1 /\ queue # <<>>
  /\ \E c \in Active : turn[c].fired = 1 /\ turn[c].aborted

\* C2: FIFO -- turns are started in the order prompt() was called: the i-th turn
\* started is the i-th request; none is reordered, skipped or started twice.
C2_Fifo == \A i \in 1..Len(started) : started[i] = i

\* three requests, the 2nd and 3rd queued behind a running turn, all started
C2_Witness ==
  /\ Len(started) = 3
  /\ pc[1] = "draining" /\ pc[2] = "returned" /\ pc[3] = "returned"

\* C3: engine-failure isolation -- after a turn that ended in an engine failure
\* (the engine call rejected, or the engine yielded an error event) the drain
\* loop goes on and the busy flag is released: busy is never left set with no
\* drain loop running.
C3_EngineFailureIsolated ==
  (ended.item # 0 /\ (ended.cause = "engineReject" \/ ended.sawError))
     => (busy => DrainLoops # {})

\* C4: no exception raised during a turn escapes _runPrompt into the drain
\* loop; it is caught and handed to subscribers as an error event tagged with
\* the turn's source.
C4_NoEscape ==
  (ended.item # 0 /\ ended.cause # "done")
     => /\ ended.outcome = "resolved"
        /\ emitted # <<>>
        /\ emitted[Len(emitted)].ev = "error"
        /\ emitted[Len(emitted)].source = src[ended.item]

\* C5: when the watchdog fires, the turn is aborted and subscribers receive a
\* timeout error tagged with that turn's source, and the drain loop is not lost.
C5_TimeoutOutcome ==
  wd.item # 0
     => /\ emitted # <<>>
        /\ emitted[1].ev = "error" /\ emitted[1].msg = "timeout"
        /\ emitted[1].source = src[wd.item]
        /\ \A c \in Active : turn[c].item = wd.item => turn[c].aborted
        /\ busy => DrainLoops # {}

\* C6: watchdog reset semantics -- a timeout fires only after a gap of at least
\* INACTIVITY_TIMEOUT_MS since the last engine event (events spaced closer never
\* trigger one, however long the turn lasts), and a gap longer than the timeout
\* has triggered exactly one timeout: not zero, not several.
C6_WatchdogReset ==
  /\ wd.item # 0 => wd.gapAtFire >= INACTIVITY_TIMEOUT_MS /\ wd.firedInGap = 1
  /\ \A c \in Active :
       /\ turn[c].fired <= 1
       /\ turn[c].fired = 1 => turn[c].gap >= INACTIVITY_TIMEOUT_MS
       /\ turn[c].gap > INACTIVITY_TIMEOUT_MS => turn[c].fired = 1

\* a turn that saw an event, then a silence longer than the timeout, and one timeout
C6_Witness ==
  \E c \in Active :
    turn[c].n >= 1 /\ turn[c].gap > INACTIVITY_TIMEOUT_MS /\ turn[c].fired = 1

\* C7: no starvation -- a queued request is never left with nothing ahead of it:
\* while the queue is non-empty a drain loop is running a turn, so the request
\* is started once the turns before it have terminated.
C7_NoStarvation == queue # <<>> => (DrainLoops # {} /\ Active # {})

\* C8: fan-out -- every emission reaches every subscriber registered at that
\* moment, once and in registration order, tagged with the source of the request
\* whose turn produced it; every event the engine produced in a turn was emitted.
C8_FanOut ==
  /\ \A i \in 1..Len(emitted) :
       /\ emitted[i].to = emitted[i].regs
       /\ emitted[i].source = src[emitted[i].item]
  /\ ended.item # 0 => ended.em = ended.n

C10_NoPersistOnError ==
  /\ \A c \in Active : turn[c].sawError => ~turn[c].wroteMem
  /\ ended.sawError => ~ended.wroteMem /\ ~ended.wroteDisk

\* C11: clearSession() / clearMessages() called while a turn is in flight is not
\* undone by that turn's completion: when the turn ends, the in-memory
\* continuation token is none, the session file is absent once the unlink has
\* finished, and the next turn is started with no token.
C11_ClearNotUndone ==
  (ended.item # 0 /\ ended.cleared)
     => /\ ~Truthy(sessionId)
        /\ ~unlinking => LoadSessionId(disk) = None
        /\ \A c \in Active : ~Truthy(turn[c].usedToken)

C13_AbortTerminates ==
  \A c \in Active :
    (turn[c].phase = "stream" /\ turn[c].aborted) => ENABLED AbortSignalled(c)

\* C14: every turn that starts delivers a terminal outcome to subscribers: when
\* a turn ends, the last event its subscribers were handed is a terminal one
\* (done, agent_end or error).
C14_TerminalOutcome ==
  ended.item # 0 => ended.last \in {"done", "agent_end", "error"}

\* the turn that just ended was successful but for the failed write of its token
SaveFailed ==
  /\ ended.item # 0 /\ ended.cause \in {"save", "done"}
  /\ ended.wroteMem /\ ~ended.wroteDisk
  /\ ~ended.sawError /\ ~ended.aborted

\* C15: a failure to persist the continuation token does not change the turn's
\* outcome: subscribers were still handed the terminal done / agent_end event and
\* no error event, _runPrompt resolved, and the in-memory token is set.
C15_SaveFailureLoggedOnly ==
  SaveFailed
     => /\ ended.last \in {"done", "agent_end"}
        /\ ended.outcome = "resolved"
        /\ ~ended.touched => Truthy(sessionId)

\* the last compactContext call found its input over budget
Compacted == result.path \in {"nokey", "failed", "summary"}

\* C16: compaction idempotence ("gemini") -- one compactContext call on an
\* over-budget history returns a history within MAX_CONTEXT_CHARS, and a second
\* call on that result returns it unchanged, whatever the summarizer does.
C16_CompactionIdempotent ==
  (cgen = "gemini" /\ Compacted)
     => /\ CountContextChars(result.out) <= MAX_CONTEXT_CHARS
        /\ \A raw \in SummaryTexts, fail \in Failures :
             CompactContext(cgen, result.out, openrouterKey, raw, fail).out = result.out

\* C17: compaction termination ("gemini") -- when the summarization call fails,
\* the compactContext call returns a history that is within budget and no larger
\* than its input, in message count and in measured size.
C17_FailedSummaryConverges ==
  (cgen = "gemini" /\ result.path = "failed")
     => /\ CountContextChars(result.out) <= MAX_CONTEXT_CHARS
        /\ CountContextChars(result.out) <= CountContextChars(result.in)
        /\ Len(result.out) <= Len(result.in)

\* C18: write-back -- whenever compactContext compacts (summary, failed-summary
\* or no-key path) the stored history is replaced by exactly the history it
\* returned, so re-measuring the store right after the call gives the size of
\* the returned history.
C18_WriteBack ==
  (cgen \in {"gemini", "haiku"} /\ Compacted)
     => /\ messages = result.out
        /\ CountContextChars(messages) = CountContextChars(result.out)

\* text starts with the marker and ends with the summary
MarkedSummary(text, summary) ==
  /\ Len(text) >= Len(COMPACTION_CODE) + Len(summary)
  /\ SubSeq(text, 1, Len(COMPACTION_CODE)) = COMPACTION_CODE
  /\ SubSeq(text, Len(text) - Len(summary) + 1, Len(text)) = summary

\* C19: on a successful summarization of an over-budget history the returned
\* history, and the stored history, is exactly one message whose text begins with
\* COMPACTION_CODE followed by the summary; nothing else is kept beside it.
C19_SummaryOnly ==
  (cgen \in {"gemini", "tail"} /\ result.path = "summary")
     => /\ Len(result.out) = 1
        /\ MarkedSummary(result.out[1].content, result.summary)
        /\ messages = result.out

\* the ways compactContext of part_014 falls back to trimming
FallbackCauses == {"nokey", "noModel", "stream", "empty"}

C21_Measurement ==
  (call.fn = "countContextChars" /\ call.done)
     => call.out = TextChars(call.in)

LoadAfterSave == call.fn = "load" /\ call.prev.fn = "save"
LoadAfterClear == call.fn = "load" /\ call.prev.fn = "clear"
ClearOfNothing == call.fn = "clear" /\ call.was = None

OnDisk ==
  IF variant = "runAgent" THEN ReadSessionJson(call.was) ELSE ParseCheckpoint(call.was)

\* C23: in the session.json and checkpoint.json generations load returns a
\* saved checkpoint only if now - savedAt is within MAX_CHECKPOINT_AGE_MS; for
\* an older checkpoint load returns null and the file is deleted.
C23_Staleness ==
  (variant \in {"runAgent", "pi"} /\ call.fn = "load") =>
    /\ call.out.found => call.at - call.out.savedAt <= MAX_CHECKPOINT_AGE_MS
    /\ (OnDisk.found /\ call.at - OnDisk.savedAt > MAX_CHECKPOINT_AGE_MS)
         => ~call.out.found /\ disk = None

\* C24: prompt() does not block its caller on completion of a turn: no prompt()
\* call is still pending while a turn, of its own request or of another queued
\* one, is running on its behalf.
C24_PromptDoesNotBlock ==
  \A c \in Calls : pc[c] = "draining" => turn[c].phase = "none"

\* the step starts a turn in the drain loop of call c
TurnStarts(c) ==
  /\ turn'[c].phase # "none"
  /\ turn[c].phase = "none" \/ turn'[c].item # turn[c].item

\* the step leaves the drain loop of call c inside the same turn
TurnGoesOn(c) ==
  /\ turn[c].phase # "none"
  /\ turn'[c].phase # "none"
  /\ turn'[c].item = turn[c].item

\* C25: setModel(id) changes the model of the next turn to start and has no
\* effect on a turn in progress: a turn is started with the model set at that
\* moment and keeps it until it ends, and a setModel step changes no turn.
C25_SetModelFrame ==
  [][/\ \A c \in Calls :
          /\ TurnStarts(c) => turn'[c].usedModel = model
          /\ TurnGoesOn(c) => turn'[c].usedModel = turn[c].usedModel
     /\ (model' = "m1" /\ model # "m1") => (turn' = turn /\ queue' = queue)]_vars

\* setModel("m1") was called during a turn that was started with "m0"
C25_Witness ==
  \E c \in Active : turn[c].usedModel = "m0" /\ model = "m1" /\ turn[c].n > 0

\* C26: init() is idempotent: an init() step taken after a first init() has
\* completed leaves the continuation state, the model, the queue and the
\* subscribers unchanged, whatever prompt, clear, setModel and turn steps came
\* in between.
C26_InitIdempotent ==
  [][(initialized /\ DoInit)
       => /\ sessionId' = sessionId
          /\ model' = model
          /\ queue' = queue
          /\ listeners' = listeners]_vars

DoneCount(evs) == Cardinality({i \in 1..Len(evs) : evs[i].type = "done"})

\* C27: every event sequence runTurn produces -- the engine succeeding,
\* reporting an error or throwing -- ends with exactly one done event carrying
\* the continuation token, and no event follows it.
C27_AdapterTermination ==
  call.fn = "runTurn" =>
    /\ DoneCount(call.out) <= 1
    /\ \A i \in 1..Len(call.out) : call.out[i].type = "done" => i = Len(call.out)
    /\ call.pc # "stream" =>
         /\ call.out # <<>>
         /\ call.out[Len(call.out)] = DoneEvent(call.sid)

\* the keyword starts at position i of s, in any casing
KeywordAt(s, word, i) ==
  /\ i + Len(word) - 1 <= Len(s)
  /\ \A j \in 1..Len(word) : ToLowerChar(s[i + j - 1]) = word[j]

MentionsProblem(s) ==
  \E k \in 1..Len(ProblemKeywords), i \in 1..Len(s) : KeywordAt(s, ProblemKeywords[k], i)

\* C29: resolveNotify returns true for mode true (always), false for mode false
\* (never), and for on_issue returns true exactly when the task failed or the
\* output contains, in any casing, one of warning, error, critical, down, fail,
\* issue, alert.
C29_NotificationPolicy ==
  (call.fn = "resolveNotify" /\ call.done) =>
    /\ call.notify = "true" => call.out
    /\ call.notify = "false" => ~call.out
    /\ call.notify = "on_issue" =>
         (call.out <=> (~call.success \/ MentionsProblem(call.output)))

\* a successful task whose output says "x DoWn": on_issue notifies
C29_Witness ==
  /\ call.fn = "resolveNotify"
  /\ call.done
  /\ call.notify = "on_issue"
  /\ call.success
  /\ call.output = <<"x", " ", "D", "o", "W", "n">>
  /\ call.out

\* C28: runTask never rejects; an engine failure or an error event inside one
\* scheduled task yields a TaskResult with success = false, a failed
\* notification is caught, and in both cases every task that is not running can
\* still be fired.
C28_TaskIsolation ==
  call.fn = "scheduler" =>
    /\ ~call.last.rejected
    /\ call.last.cause \in {"error_event", "throws"} =>
         ~call.last.success /\ call.last.output = TaskFailedOutput
    /\ call.last.cause = "text" => call.last.success
    /\ call.last.notified =>
         ResolveNotify(call.notify[call.last.taskId], call.last.success, call.last.output)
    /\ \A t \in Tasks :
         (call.runs[t].pc = "idle" /\ call.fired < MaxFirings) => ENABLED CronFire(t)

\* after an agent failure and a failed notification, a task ran and succeeded
C28_Witness ==
  /\ call.fn = "scheduler"
  /\ call.failures > 0
  /\ call.sendFailures > 0
  /\ call.last.taskId = "t2"
  /\ call.last.success
  /\ call.last.notified
  /\ call.fired < MaxFirings

\* C30: for every text and every maxLen >= 1 splitMessage terminates -- every
\* pass of its loop takes at least one character off what remains, and a call
\* that has not returned can take another step -- and every chunk it returns
\* has length at most maxLen.
C30_ChunkCeiling ==
  call.fn = "splitMessage" =>
    /\ \A i \in 1..Len(call.chunks) : Len(call.chunks[i]) <= call.maxLen
    /\ call.iters + Len(call.remaining) <= Len(call.in)
    /\ Len(call.chunks) <= Len(call.in) + 1
    /\ ~call.done => ENABLED NextSplit

\* a text split at a newline first and by a hard split after it
C30_Witness ==
  /\ call.fn = "splitMessage"
  /\ call.done
  /\ call.maxLen = 2
  /\ Len(call.chunks) = 3
  /\ call.in = <<"a", "\n", "a", "a", "a">>

\* the step of the loop cut a chunk off a text longer than the ceiling
CutsChunk ==
  /\ call.fn = "splitMessage"
  /\ Len(call.remaining) > call.maxLen
  /\ Len(call'.chunks) = Len(call.chunks) + 1

\* cutting s after its first n characters leaves both sides inside a line
MidLine(s, n) == n >= 1 /\ n < Len(s) /\ s[n] # "\n" /\ s[n + 1] # "\n"

\* C31: each split point splitMessage chooses is the line boundary nearest the
\* limit: a chunk ends in the middle of a line only when the first maxLen
\* characters of the remaining text contain no newline to cut at (one after at
\* least one character), and otherwise it is cut at the last such newline or
\* later.
C31_SplitOnLineBoundary ==
  [][CutsChunk =>
       LET rem == call.remaining
           n == Len(call'.chunks[Len(call'.chunks)])
           newlines == {i \in 2..call.maxLen : rem[i] = "\n"}
       IN /\ MidLine(rem, n) => newlines = {}
          /\ \A i \in newlines : n >= i - 1]_vars

\* C32: a prompt() issued before init() has completed is rejected without
\* damage: once it has been rejected busy is false, so that prompt() calls made
\* after init() are started.
C32_EarlyPromptHarmless ==
  \A c \in Calls : (pc[c] = "rejected" /\ ~initialized) => ~busy

\* callbacks registered in a listeners map
Registered(ls) == {ls[i].cb : i \in 1..Len(ls)}

\* C33: subscriptions are independent: a subscribe() call, also one with an id
\* already in use, leaves every earlier callback registered, and the k-th
\* unsubscribe function removes the k-th callback and nothing else.
C33_IndependentSubscriptions ==
  [][/\ Len(subs') = Len(subs) + 1 => Registered(listeners) \subseteq Registered(listeners')
     /\ \A k \in 1..Len(subs) :
          Unsubscribe(k) => Registered(listeners) \ Registered(listeners') = {k}]_vars

\* no turn in flight, nothing queued, no drain loop alive, no unlink pending
\* (a save is awaited inside its turn, so it has finished when the turn has)
Quiescent == Active = {} /\ DrainLoops = {} /\ queue = <<>> /\ ~unlinking

\* C34: whenever the initialised runtime is quiescent, the token init() would
\* load from the session file equals the in-memory continuation token (both
\* absent or both the same token); a turn that ended without a token is left
\* out.
C34_DiskMatchesMemory ==
  (variant = "sdk" /\ initialized /\ Quiescent /\ sessionId # EmptyTok)
     => LoadSessionId(disk) = sessionId

\* item j has been run as a turn, and that turn is over
RanToCompletion(j) ==
  /\ \E i \in 1..Len(started) : started[i] = j
  /\ \A c \in Active : turn[c].item # j

\* C35: markSavedToday() executes only after the write-back prompt enqueued by
\* the same _onIdle call has been run as a turn to completion, also when another
\* turn was in flight when it was enqueued.
C35_MarkerAfterWriteBack ==
  [][\A r \in IdleRuns :
       MarkSavedToday(r) => RanToCompletion(call.runs[r].wb)]_vars

\* a write-back prompt is enqueued in this step
EnqueuesWriteBack == call.fn = "memory" /\ call'.enqueued = call.enqueued + 1

\* C37: a write-back prompt is enqueued at most once between two consecutive
\* markActivity() calls, only after idleMinutes without user activity, and not
\* while the saved-today marker exists.
C37_IdleWriteBackOnce ==
  [][EnqueuesWriteBack =>
       /\ call'.enqueued <= 1
       /\ now - call.lastActivity >= idleMinutes
       /\ ~call.marker]_vars

\* C36: watchdog timer hygiene in the sdk and pi generations -- at most one
\* timer is armed, none is armed while no turn is in flight, every armed timer
\* belongs to the turn in flight (in sdk the turn whose AbortController abort()
\* would signal), and a timeout that has fired has aborted only its own turn.
C36_WatchdogHygiene ==
  variant \in {"sdk", "pi"} =>
    /\ Cardinality(timers) <= 1
    /\ Active = {} => timers = {}
    /\ \A tm \in timers :
         /\ \E c \in Active : turn[c].item = tm.owner
         /\ variant = "sdk" => abortCtl = tm.owner
    /\ wd.item # 0 => \A c \in Active : turn[c].aborted => turn[c].item = wd.item

\* the watchdog of the second turn has fired and aborted that turn, after the
\* first turn had ended
C36_Witness ==
  /\ variant = "sdk" /\ Len(started) = 2 /\ wd.item = 2 /\ timers = {}
  /\ \E c \in Active : turn[c].item = 2 /\ turn[c].aborted

\* s consists of whitespace only
Blank(s) == \A i \in 1..Len(s) : s[i] \in {" ", "\n"}

\* text is the chunks in their order, with nothing but whitespace between two
\* chunks and after the last
RECURSIVE Reassembles(_, _)
Reassembles(text, chunks) ==
  IF chunks = <<>> THEN Blank(text)
  ELSE LET c == Head(chunks) IN
       /\ Len(c) <= Len(text)
       /\ SubSeq(text, 1, Len(c)) = c
       /\ \E k \in Len(c)..Len(text) :
            /\ Blank(SubSeq(text, Len(c) + 1, k))
            /\ Reassembles(SubSeq(text, k + 1, Len(text)), Tail(chunks))

\* C38 as stated: for any text the chunks splitMessage returns are non-empty
\* and reassemble the text, in order, up to whitespace at the split points.
C38_NoContentLostAnyText ==
  (call.fn = "splitMessage" /\ call.done) =>
    /\ \A i \in 1..Len(call.chunks) : call.chunks[i] # <<>>
    /\ Reassembles(call.in, call.chunks)

\* C38 (amended): for a non-empty text the chunks splitMessage returns are
\* non-empty and reassemble the text, in order, up to whitespace at the split
\* points; the empty text is returned as one empty chunk.
C38_NoContentLost ==
  (call.fn = "splitMessage" /\ call.done) =>
    /\ call.in # <<>> => \A i \in 1..Len(call.chunks) : call.chunks[i] # <<>>
    /\ call.in = <<>> => call.chunks = <<(<<>>)>>
    /\ Reassembles(call.in, call.chunks)

\* a text cut at a newline, which is dropped between the two chunks
C38_Witness ==
  /\ call.fn = "splitMessage"
  /\ call.done
  /\ call.in = <<"a", "a", "\n", "a">>
  /\ call.chunks = << <<"a", "a">>, <<"a">> >>
====
